---- MODULE Spec2Model ----
(***************************************************************************)
(* Model of the compliance reconciliation code of docs_sosa: the           *)
(* classification of a part (Fusion3/Legacy.initialize_main_params,        *)
(* Utils.validate_part_number), the BOM reconciliation                     *)
(* (Fusion3.get_bom_in_content), the document reconciliation               *)
(* (Fusion3.validate_required_docs), the parameter comparison              *)
(* (ComparisonExcel) and the run handlers of CVSplmAutomation.             *)
(*                                                                         *)
(* Strings are TLA+ strings; Python's `in`, lower(), upper(), re.search    *)
(* and int(float(.)) are computed character by character.                  *)
(***************************************************************************)
EXTENDS Integers, Sequences, FiniteSets, TLC

VARIABLES
    phase,              \* position of the run handler
    ctx,                \* what the PLM page shows for the part, and the widgets
    titles,             \* rows of the Content tab
    documents,          \* records of the Documents section
    am_docs,            \* records of the Aftermarket Product section
    letter_identifier,  \* CVSplmAutomation.letter_identifier
    utils_letter,       \* Utils.letter_identifier
    f3,                 \* fields of the Fusion3 object
    legacy,             \* fields of the Legacy object
    bom_result,         \* what get_bom_in_content gave
    docs_result,        \* what validate_required_docs gave
    am_result,          \* what validate_aftermarket_product gave
    run_count,          \* runs started on the automation object
    df_reference,       \* Parameter_Name column of the reference file
    df_downloaded,      \* Parameter_Name column of the downloaded file
    hash_seed,          \* string hash seed of the interpreter process
    reports,            \* messages of the comparisons made so far
    attr_page,          \* attribute values the Information tab shows
    attr_result,        \* what get_attribute_values gave, with the on-screen styling
    pdf_result,         \* rows PDFReportGenerator.generate_pdf marked in the report
    file_name_path,     \* path of the file download_excel_file stored
    archive,            \* what that file holds
    ini_result,         \* results_to_pdf after compare_ini_files
    btn_generate_pdf,   \* the 'Generate PDF Report' button of CVSplmAutomation
    schedule_data,      \* one row of the schedule file: parameter and value, in order
    main_title,         \* the top element of the Content tab
    schedule_result     \* the table get_bom_schedule_in_content gave

partVars == <<ctx, titles, documents, am_docs>>
objVars == <<letter_identifier, utils_letter, f3, legacy>>
resVars == <<bom_result, docs_result, am_result>>
fileVars == <<df_reference, df_downloaded, hash_seed, reports>>
attrVars == <<attr_page, attr_result, pdf_result>>
schedVars == <<schedule_data, main_title, schedule_result>>
iniVars == <<file_name_path, archive, ini_result, schedVars>>
cmpVars == <<fileVars, attrVars, iniVars, btn_generate_pdf>>

vars == <<phase, partVars, objVars, resVars, run_count, cmpVars>>

\* program constants
VersionDigits == 6
NutScrewQuantity == 3
DefaultQuantity == 1

(***************************************************************************)
(* Python string primitives                                                *)
(***************************************************************************)
Char(s, i) == SubSeq(s, i, i)

LowerChar(c) ==
    CASE c = "A" -> "a" [] c = "B" -> "b" [] c = "C" -> "c" [] c = "D" -> "d"
      [] c = "E" -> "e" [] c = "F" -> "f" [] c = "G" -> "g" [] c = "H" -> "h"
      [] c = "I" -> "i" [] c = "J" -> "j" [] c = "K" -> "k" [] c = "L" -> "l"
      [] c = "M" -> "m" [] c = "N" -> "n" [] c = "O" -> "o" [] c = "P" -> "p"
      [] c = "Q" -> "q" [] c = "R" -> "r" [] c = "S" -> "s" [] c = "T" -> "t"
      [] c = "U" -> "u" [] c = "V" -> "v" [] c = "W" -> "w" [] c = "X" -> "x"
      [] c = "Y" -> "y" [] c = "Z" -> "z" [] OTHER -> c

UpperChar(c) ==
    CASE c = "a" -> "A" [] c = "b" -> "B" [] c = "c" -> "C" [] c = "d" -> "D"
      [] c = "e" -> "E" [] c = "f" -> "F" [] c = "g" -> "G" [] c = "h" -> "H"
      [] c = "i" -> "I" [] c = "j" -> "J" [] c = "k" -> "K" [] c = "l" -> "L"
      [] c = "m" -> "M" [] c = "n" -> "N" [] c = "o" -> "O" [] c = "p" -> "P"
      [] c = "q" -> "Q" [] c = "r" -> "R" [] c = "s" -> "S" [] c = "t" -> "T"
      [] c = "u" -> "U" [] c = "v" -> "V" [] c = "w" -> "W" [] c = "x" -> "X"
      [] c = "y" -> "Y" [] c = "z" -> "Z" [] OTHER -> c

RECURSIVE Lower(_)
Lower(s) == IF s = "" THEN "" ELSE LowerChar(Char(s, 1)) \o Lower(SubSeq(s, 2, Len(s)))

RECURSIVE Upper(_)
Upper(s) == IF s = "" THEN "" ELSE UpperChar(Char(s, 1)) \o Upper(SubSeq(s, 2, Len(s)))

\* Python `sub in s`
In(sub, s) ==
    \E i \in 1..(Len(s) - Len(sub) + 1) : SubSeq(s, i, i + Len(sub) - 1) = sub

IsDigit(c) == c \in {"0", "1", "2", "3", "4", "5", "6", "7", "8", "9"}

DigitVal(c) ==
    CASE c = "0" -> 0 [] c = "1" -> 1 [] c = "2" -> 2 [] c = "3" -> 3 [] c = "4" -> 4
      [] c = "5" -> 5 [] c = "6" -> 6 [] c = "7" -> 7 [] c = "8" -> 8 [] c = "9" -> 9

AllDigits(s) == \A i \in 1..Len(s) : IsDigit(Char(s, i))

\* re.search(prefix + r"\d{n}", s)
SearchPrefixDigits(prefix, n, s) ==
    \E i \in 1..(Len(s) - (Len(prefix) + n) + 1) :
        /\ SubSeq(s, i, i + Len(prefix) - 1) = prefix
        /\ AllDigits(SubSeq(s, i + Len(prefix), i + Len(prefix) + n - 1))

\* re.search(r"\d+", s): the position of the first digit, 0 when there is none
FirstDigit(s) ==
    IF \E i \in 1..Len(s) : IsDigit(Char(s, i))
    THEN CHOOSE i \in 1..Len(s) :
            IsDigit(Char(s, i)) /\ \A j \in 1..(i - 1) : ~IsDigit(Char(s, j))
    ELSE 0

RECURSIVE NatOf(_)
NatOf(s) ==
    IF s = "" THEN 0
    ELSE 10 * NatOf(SubSeq(s, 1, Len(s) - 1)) + DigitVal(Char(s, Len(s)))

DotPos(s) ==
    IF \E i \in 1..Len(s) : Char(s, i) = "."
    THEN CHOOSE i \in 1..Len(s) : Char(s, i) = "." /\ \A j \in 1..(i - 1) : Char(s, j) # "."
    ELSE 0

\* float(q) succeeds: the decimal forms digits, digits.digits, digits. and .digits
\* (the forms the extraction produces); anything else here raises ValueError
FloatParses(q) ==
    LET d == DotPos(q) IN
    IF d = 0 THEN q # "" /\ AllDigits(q)
    ELSE /\ AllDigits(SubSeq(q, 1, d - 1))
         /\ AllDigits(SubSeq(q, d + 1, Len(q)))
         /\ Len(q) > 1

\* int(float(q)) for a q that parses: truncation to the integer part
IntOfFloat(q) ==
    LET d == DotPos(q) IN
    IF d = 0 THEN NatOf(q) ELSE NatOf(SubSeq(q, 1, d - 1))

(***************************************************************************)
(* Python list primitives                                                  *)
(***************************************************************************)
Contains(seq, x) == \E i \in 1..Len(seq) : seq[i] = x

IndexOf(seq, x) == CHOOSE i \in 1..Len(seq) : seq[i] = x /\ \A j \in 1..(i - 1) : seq[j] # x

\* list.remove(x) for an x that is in the list: the first occurrence goes
ListRemove(seq, x) ==
    LET k == IndexOf(seq, x) IN SubSeq(seq, 1, k - 1) \o SubSeq(seq, k + 1, Len(seq))

Count(seq, x) == Cardinality({i \in 1..Len(seq) : seq[i] = x})

SeqsUpTo(S, n) == UNION {[1..k -> S] : k \in 0..n}

(***************************************************************************)
(* Classification                                                          *)
(***************************************************************************)
None == "None"

BracketTypes == {"FLR-25 Bracket", "FLC-25 Bracket"}
CoverTypes == {"FLC-25 Cover"}
Fusion3Types == {"FLR-25", "FLC-25"} \cup BracketTypes \cup CoverTypes
LegacyTypes == {"FLC-20", "FLR-21"}

radar_in_title(title_id_value) == In("radar", Lower(title_id_value))
camera_in_title(title_id_value) == In("camera", Lower(title_id_value))
bracket_in_title(title_id_value) == In("bracket assembly", Lower(title_id_value))
cover_in_title(title_id_value) == In("cover", Lower(title_id_value))

\* the bracket check looking for 'bracket' alone
F3ClassificationRaises_AnyBracket(title_id_value, type_dropdown) ==
    IF type_dropdown \in BracketTypes THEN ~In("bracket", Lower(title_id_value))
    ELSE IF type_dropdown \in CoverTypes THEN ~cover_in_title(title_id_value)
    ELSE ~(radar_in_title(title_id_value) \/ camera_in_title(title_id_value))

\* Fusion3.initialize_main_params: does it raise ValueError
F3ClassificationRaises(title_id_value, type_dropdown) ==
    IF type_dropdown \in BracketTypes THEN ~bracket_in_title(title_id_value)
    ELSE IF type_dropdown \in CoverTypes THEN ~cover_in_title(title_id_value)
    ELSE ~(radar_in_title(title_id_value) \/ camera_in_title(title_id_value))

\* Fusion3.initialize_main_params: the element_name it stores when it returns
F3ElementName(title_id_value, type_dropdown) ==
    IF type_dropdown \in BracketTypes THEN "Bracket"
    ELSE IF type_dropdown \in CoverTypes THEN "Cover"
    ELSE IF radar_in_title(title_id_value) THEN "Radar" ELSE "Camera"

\* Fusion3.__init__: the flag is cleared, the classification fields do not exist yet
FreshF3 ==
    [is_am_bracket |-> FALSE, part_number |-> None, title_id_value |-> None,
     letter_identifier |-> None, chbx_bracket |-> None, chbx_resistor |-> None,
     type_dropdown |-> None, radar_in_title |-> None, camera_in_title |-> None,
     bracket_in_title |-> None, cover_in_title |-> None, element_name |-> None]

\* Fusion3.initialize_main_params, lines 56-67: the fields stored before the checks
F3Stored(f, i) ==
    [f EXCEPT !.part_number = i.part_number,
              !.title_id_value = i.title_id_value,
              !.letter_identifier = i.letter_identifier,
              !.chbx_bracket = i.chbx_bracket,
              !.chbx_resistor = i.chbx_resistor,
              !.type_dropdown = i.type_dropdown,
              !.radar_in_title = radar_in_title(i.title_id_value),
              !.camera_in_title = camera_in_title(i.title_id_value),
              !.bracket_in_title = bracket_in_title(i.title_id_value),
              !.cover_in_title = cover_in_title(i.title_id_value)]

\* Fusion3.initialize_main_params on object f with arguments i
initialize_main_params(f, i) ==
    IF F3ClassificationRaises(i.title_id_value, i.type_dropdown)
    THEN [raised |-> TRUE, f3 |-> F3Stored(f, i)]
    ELSE [raised |-> FALSE,
          f3 |-> [F3Stored(f, i) EXCEPT
                     !.element_name = F3ElementName(i.title_id_value, i.type_dropdown)]]

\* Legacy.initialize_main_params: does it raise ValueError
LegacyClassificationRaises(title_id_value) ==
    ~(radar_in_title(title_id_value) \/ camera_in_title(title_id_value))

LegacyElementName(title_id_value) ==
    IF radar_in_title(title_id_value) THEN "Radar" ELSE "Camera"

\* Legacy.__init__: no classification field exists yet
FreshLegacy ==
    [part_number |-> None, title_id_value |-> None, letter_identifier |-> None,
     chbx_bracket |-> None, chbx_resistor |-> None, type_dropdown |-> None,
     radar_in_title |-> None, camera_in_title |-> None, element_name |-> None]

\* Legacy.initialize_main_params on object l with arguments i
legacy_initialize_main_params(l, i) ==
    LET stored == [l EXCEPT !.part_number = i.part_number,
                            !.title_id_value = i.title_id_value,
                            !.letter_identifier = i.letter_identifier,
                            !.chbx_bracket = i.chbx_bracket,
                            !.chbx_resistor = i.chbx_resistor,
                            !.type_dropdown = i.type_dropdown,
                            !.radar_in_title = radar_in_title(i.title_id_value),
                            !.camera_in_title = camera_in_title(i.title_id_value)]
    IN  IF LegacyClassificationRaises(i.title_id_value)
        THEN [raised |-> TRUE, legacy |-> stored]
        ELSE [raised |-> FALSE,
              legacy |-> [stored EXCEPT !.element_name = LegacyElementName(i.title_id_value)]]

\* Utils.validate_part_number: re.findall(r"\d+(?:[XRN]|SC)\d+", part_number) is non-empty
PartNumberMatches(part_number) ==
    \E i \in 1..Len(part_number) :
        /\ IsDigit(Char(part_number, i))
        /\ \/ /\ i + 2 <= Len(part_number)
              /\ Char(part_number, i + 1) \in {"X", "R", "N"}
              /\ IsDigit(Char(part_number, i + 2))
           \/ /\ i + 3 <= Len(part_number)
              /\ SubSeq(part_number, i + 1, i + 2) = "SC"
              /\ IsDigit(Char(part_number, i + 3))

\* Utils.validate_part_number: the letter it stores in self.letter_identifier, the
\* first of R, X, N, SC (the order of letter_patterns) found anywhere in the number
PartNumberLetter(part_number) ==
    IF In("R", part_number) THEN "R"
    ELSE IF In("X", part_number) THEN "X"
    ELSE IF In("N", part_number) THEN "N"
    ELSE IF In("SC", part_number) THEN "SC"
    ELSE None

\* Utils.validate_part_number: the value returned
validate_part_number(part_number) ==
    IF PartNumberMatches(part_number) THEN PartNumberLetter(part_number) ELSE None

\* Utils.validate_bracket_cover_number: re.findall(r"K\d+", part_number) is non-empty
validate_bracket_cover_number(part_number) ==
    \E i \in 1..(Len(part_number) - 1) :
        Char(part_number, i) = "K" /\ IsDigit(Char(part_number, i + 1))

\* Utils.validate_partX_number: re.findall(r"\d+X\d+", part_number) is non-empty
validate_partX_number(part_number) ==
    \E k \in 2..(Len(part_number) - 1) :
        /\ Char(part_number, k) = "X"
        /\ IsDigit(Char(part_number, k - 1))
        /\ IsDigit(Char(part_number, k + 1))

\* Utils.get_partX_name_in_content: the id of the first row of the Content tab
\* that is an X part number, None when there is none
get_partX_name_in_content(rows) ==
    LET found == {k \in 1..Len(rows) : validate_partX_number(rows[k].id)}
    IN  IF found = {} THEN None
        ELSE rows[CHOOSE k \in found : \A j \in found : k <= j].id

\* Utils.get_identifier_bracket_cover, given the letter Utils holds
get_identifier_bracket_cover(title_id_value, type_dropdown, held) ==
    IF type_dropdown \in BracketTypes \cup CoverTypes
    THEN IF In("bracket", Lower(title_id_value)) THEN "B"
         ELSE IF In("cover", Lower(title_id_value)) THEN "Cover"
         ELSE held
    ELSE held

\* str.strip() of the sales channel limitation (blanks only)
RECURSIVE Strip(_)
Strip(s) ==
    IF s = "" THEN ""
    ELSE IF Char(s, 1) = " " THEN Strip(SubSeq(s, 2, Len(s)))
    ELSE IF Char(s, Len(s)) = " " THEN Strip(SubSeq(s, 1, Len(s) - 1))
    ELSE s

\* Fusion3.is_AM_bracket: the flag it stores and returns
is_AM_bracket(sales_chann_limit) == Strip(Lower(sales_chann_limit)) = "am only"

\* Utils.validate_type_number
validate_type_number(type_number, type_dropdown) ==
    LET type_dropdown_value ==
            IF type_dropdown = "FLR-25 Bracket" THEN "FLR-25"
            ELSE IF type_dropdown \in {"FLC-25 Bracket", "FLC-25 Cover"} THEN "FLC-25"
            ELSE type_dropdown
    IN  type_number = type_dropdown_value

(***************************************************************************)
(* Requirement catalog of Fusion 3                                         *)
(***************************************************************************)
CanElement(chbx_resistor) ==
    IF chbx_resistor THEN <<"with CAN termination">> ELSE <<"wo CAN termination">>

\* the same lookup when a radar key without an entry falls back on the profile of X
get_required_elements_DefaultProfile(element_name, c) ==
    LET radar ==
            IF c.letter_identifier = "R"
            THEN <<"Dataset", "Software", "Boot Software">>
                 \o (IF c.chbx_bracket THEN <<"Screw", "Bracket", "Nut">> ELSE <<>>)
                 \o CanElement(c.chbx_resistor)
            ELSE <<"Dataset", "Software", "Boot Software">> \o CanElement(c.chbx_resistor)
        e1 == IF element_name = "Radar" THEN radar ELSE <<>>
        e2 == IF element_name = "Camera" /\ c.letter_identifier \in {"X", "SC", "R"}
              THEN <<"Dataset", "Software", "Boot Software", "Camera">>
              ELSE e1
        e3 == IF element_name = "Bracket" /\ c.type_dropdown = "FLR-25 Bracket"
              THEN (IF c.is_am_bracket THEN <<"Screw", "Bracket", "Nut">>
                    ELSE <<"Bracket", "Nut">>)
              ELSE e2
        e4 == IF element_name = "Bracket" /\ c.type_dropdown = "FLC-25 Bracket"
              THEN <<"Bracket", "Bracket Assembly", "Worm", "Tape">>
              ELSE e3
    IN  IF element_name = "Cover" /\ c.type_dropdown = "FLC-25 Cover"
        THEN <<"Cover">> ELSE e4

\* Fusion3.get_required_elements
get_required_elements(element_name, c) ==
    LET radar ==
            IF c.letter_identifier = "X"
            THEN <<"Dataset", "Software", "Boot Software">> \o CanElement(c.chbx_resistor)
            ELSE IF c.letter_identifier = "R"
            THEN <<"Dataset", "Software", "Boot Software">>
                 \o (IF c.chbx_bracket THEN <<"Screw", "Bracket", "Nut">> ELSE <<>>)
                 \o CanElement(c.chbx_resistor)
            ELSE IF c.letter_identifier = "SC"
            THEN <<"Dataset", "Software", "Boot Software">> \o CanElement(c.chbx_resistor)
            ELSE <<>>
        e1 == IF element_name = "Radar" THEN radar ELSE <<>>
        e2 == IF element_name = "Camera" /\ c.letter_identifier \in {"X", "SC", "R"}
              THEN <<"Dataset", "Software", "Boot Software", "Camera">>
              ELSE e1
        e3 == IF element_name = "Bracket" /\ c.type_dropdown = "FLR-25 Bracket"
              THEN (IF c.is_am_bracket THEN <<"Screw", "Bracket", "Nut">>
                    ELSE <<"Bracket", "Nut">>)
              ELSE e2
        e4 == IF element_name = "Bracket" /\ c.type_dropdown = "FLC-25 Bracket"
              THEN <<"Bracket", "Bracket Assembly", "Worm", "Tape">>
              ELSE e3
    IN  IF element_name = "Cover" /\ c.type_dropdown = "FLC-25 Cover"
        THEN <<"Cover">> ELSE e4


(***************************************************************************)
(* Fusion3.get_bom_in_content                                              *)
(***************************************************************************)
Row(title, quantity, description, id) ==
    [title |-> title, quantity |-> quantity, description |-> description, id |-> id]

SoftwareRows(rows) == {i \in 1..Len(rows) : In("software", Lower(rows[i].title))}

\* first pass: the required elements that no title contains
FirstPassMissing(required_elements, rows) ==
    SelectSeq(required_elements,
              LAMBDA element : ~\E i \in 1..Len(rows) : In(element, rows[i].title))

\* the same inference when a single software row is taken as enough
DatasetInference_OneSoftware(missing_elements, rows) ==
    IF /\ Contains(missing_elements, "Dataset")
       /\ Cardinality(SoftwareRows(rows)) >= 1
       /\ \E i \in SoftwareRows(rows) :
              \/ In("DATASET", Upper(rows[i].description))
              \/ In("DATA SET", Upper(rows[i].description))
    THEN ListRemove(missing_elements, "Dataset")
    ELSE missing_elements

\* "Dataset" is dropped when two software rows exist and one describes a data set
DatasetInference(missing_elements, rows) ==
    IF /\ Contains(missing_elements, "Dataset")
       /\ Cardinality(SoftwareRows(rows)) >= 2
       /\ \E i \in SoftwareRows(rows) :
              \/ In("DATASET", Upper(rows[i].description))
              \/ In("DATA SET", Upper(rows[i].description))
    THEN ListRemove(missing_elements, "Dataset")
    ELSE missing_elements

boot_software_found(rows, keyword) ==
    \E i \in 1..Len(rows) :
        In("software", Lower(rows[i].title)) /\ In(keyword, Lower(rows[i].description))

BootSoftwareCheck(missing_elements, rows, keyword) ==
    IF ~boot_software_found(rows, keyword)
    THEN Append(missing_elements, "Boot Software")
    ELSE IF Contains(missing_elements, "Boot Software")
         THEN ListRemove(missing_elements, "Boot Software")
         ELSE missing_elements

software_ver_found(rows, prefix) ==
    \E i \in 1..Len(rows) :
        /\ ~In("boot software", Lower(rows[i].description))
        /\ In("software", Lower(rows[i].title))
        /\ SearchPrefixDigits(prefix, VersionDigits, rows[i].description)

SoftwareVersionCheck(missing_elements, rows, prefix) ==
    IF ~software_ver_found(rows, prefix) /\ ~Contains(missing_elements, "Software")
    THEN Append(missing_elements, "Software")
    ELSE missing_elements

\* the same search when the id of the row is not compared
can_termination_AnyId(rows, keyword, reference_id) ==
    \E i \in 1..Len(rows) :
        /\ In("radar", Lower(rows[i].title))
        /\ In(keyword, Lower(rows[i].description))

can_termination(rows, keyword, reference_id) ==
    \E i \in 1..Len(rows) :
        /\ In("radar", Lower(rows[i].title))
        /\ In(keyword, Lower(rows[i].description))
        /\ Upper(rows[i].id) = reference_id

CanTerminationCheck(missing_elements, rows, chbx_resistor) ==
    LET generic == IF chbx_resistor THEN "with CAN termination" ELSE "wo CAN termination"
        found == IF chbx_resistor
                 THEN can_termination(rows, "with can termination", "K218450H002")
                 ELSE can_termination(rows, "wo can termination", "K188333H002")
        qualified == IF chbx_resistor
                     THEN "Radar with CAN termination (K218450H002)"
                     ELSE "Radar without CAN termination (K188333H002)"
        dropped == IF Contains(missing_elements, generic)
                   THEN ListRemove(missing_elements, generic)
                   ELSE missing_elements
    IN  IF ~found THEN Append(dropped, qualified) ELSE dropped

\* fusion3.py 331-403
RadarCorrections(missing_elements, rows, c) ==
    CanTerminationCheck(
        SoftwareVersionCheck(
            BootSoftwareCheck(DatasetInference(missing_elements, rows), rows, "boot software"),
            rows, "VER FU"),
        rows, c.chbx_resistor)

CameraIdCheck(missing_elements, rows) ==
    IF \E i \in 1..Len(rows) :
           In("camera", Lower(rows[i].title)) /\ Upper(rows[i].id) = "K188332H000"
    THEN missing_elements
    ELSE IF Contains(missing_elements, "Camera")
         THEN [missing_elements EXCEPT ![IndexOf(missing_elements, "Camera")] =
                                            "Camera (K188332H000)"]
         ELSE Append(missing_elements, "Camera (K188332H000)")

\* fusion3.py 404-459
CameraCorrections(missing_elements, rows) ==
    SoftwareVersionCheck(
        BootSoftwareCheck(DatasetInference(CameraIdCheck(missing_elements, rows), rows),
                          rows, "boot"),
        rows, "NA")

\* fusion3.py 460-468
BracketCorrection(missing_elements, rows) ==
    IF (\E i \in 1..Len(rows) :
            In("bracket", Lower(rows[i].title)) /\ ~In("assembly", Lower(rows[i].title)))
       \/ Contains(missing_elements, "Bracket")
    THEN missing_elements
    ELSE Append(missing_elements, "Bracket")

LettersChecked == {"R", "SC", "X"}

\* the missing list after the corrections, c holding the fields initialize_main_params stored
CorrectedMissing(required_elements, rows, c) ==
    LET m0 == FirstPassMissing(required_elements, rows)
        m1 == IF c.radar_in_title /\ c.letter_identifier \in LettersChecked
              THEN RadarCorrections(m0, rows, c) ELSE m0
        m2 == IF c.camera_in_title /\ c.letter_identifier \in LettersChecked
              THEN CameraCorrections(m1, rows) ELSE m1
    IN  IF c.bracket_in_title /\ c.type_dropdown = "FLC-25 Bracket"
        THEN BracketCorrection(m2, rows) ELSE m2

\* the same choice with no exception for 'Nut' and 'Screw'
expected_value_DefaultOnly(element) == DefaultQuantity

expected_value(element) == IF element \in {"Nut", "Screw"} THEN NutScrewQuantity ELSE DefaultQuantity

\* does the row go into the table under the required element
RowMatches(element, row, c) ==
    IF c.type_dropdown = "FLC-25 Bracket" /\ element = "Bracket"
    THEN In(Lower(element), Lower(row.title)) /\ ~In("assembly", Lower(row.title))
    ELSE \/ In(element, row.title)
         \/ /\ element \in {"wo CAN termination", "with CAN termination"}
            /\ In(Lower(element), Lower(row.description))

TableRow(row, expected) ==
    [ID |-> row.id, Title |-> row.title, Description |-> row.description,
     Quantity |-> IntOfFloat(row.quantity), Expected_value |-> expected]

\* the rows one required element adds to the table, in row order
RECURSIVE RowsOfElement(_, _, _, _)
RowsOfElement(element, rows, c, i) ==
    IF i > Len(rows) THEN <<>>
    ELSE (IF RowMatches(element, rows[i], c)
          THEN <<TableRow(rows[i], expected_value(element))>> ELSE <<>>)
         \o RowsOfElement(element, rows, c, i + 1)

RECURSIVE RequiredRows(_, _, _, _)
RequiredRows(required_elements, rows, c, k) ==
    IF k > Len(required_elements) THEN <<>>
    ELSE RowsOfElement(required_elements[k], rows, c, 1)
         \o RequiredRows(required_elements, rows, c, k + 1)

\* the row carries the CAN termination the option did not ask for
OtherCanRow(required_elements, row) ==
    \/ /\ Contains(required_elements, "wo CAN termination")
       /\ In("with can termination", Lower(row.description))
    \/ /\ Contains(required_elements, "with CAN termination")
       /\ In("wo can termination", Lower(row.description))

RECURSIVE OtherCanRows(_, _, _)
OtherCanRows(required_elements, rows, i) ==
    IF i > Len(rows) THEN <<>>
    ELSE (IF OtherCanRow(required_elements, rows[i])
          THEN <<TableRow(rows[i], DefaultQuantity)>> ELSE <<>>)
         \o OtherCanRows(required_elements, rows, i + 1)

ScrewRule(required_elements, c) ==
    c.letter_identifier = "SC" /\ ~Contains(required_elements, "Screw")

ScrewRowIndexes(rows) == {i \in 1..Len(rows) : In("screw", Lower(rows[i].title))}

FirstScrewRow(rows) ==
    CHOOSE i \in ScrewRowIndexes(rows) : \A j \in ScrewRowIndexes(rows) : i <= j

\* the same rule without the break: every screw row is added
ScrewRows_NoBreak(required_elements, rows, c) ==
    IF ScrewRule(required_elements, c)
    THEN LET screws == SelectSeq(rows, LAMBDA r : In("screw", Lower(r.title)))
         IN  [k \in 1..Len(screws) |-> TableRow(screws[k], NutScrewQuantity)]
    ELSE <<>>

ScrewRows(required_elements, rows, c) ==
    IF ScrewRule(required_elements, c) /\ ScrewRowIndexes(rows) # {}
    THEN <<TableRow(rows[FirstScrewRow(rows)], NutScrewQuantity)>>
    ELSE <<>>

\* int(float(quantity)) raises ValueError somewhere in fusion3.py 470-527: the
\* element loop converts every row, the two side rules only the rows they add
QuantityRaises(required_elements, rows, c) ==
    \/ /\ Len(required_elements) > 0
       /\ \E i \in 1..Len(rows) : ~FloatParses(rows[i].quantity)
    \/ \E i \in 1..Len(rows) :
           OtherCanRow(required_elements, rows[i]) /\ ~FloatParses(rows[i].quantity)
    \/ /\ ScrewRule(required_elements, c)
       /\ ScrewRowIndexes(rows) # {}
       /\ ~FloatParses(rows[FirstScrewRow(rows)].quantity)

SuccessLetters == {"R", "X", "SC", "B", "Cover"}

\* highlight_mismatched_values: the row is shown red and bold
highlight_mismatched_values(val) == val.Quantity # val.Expected_value

\* Fusion3.get_bom_in_content, c holding the fields initialize_main_params stored
get_bom_in_content(c, rows) ==
    LET required_elements == get_required_elements(c.element_name, c)
        missing_elements == CorrectedMissing(required_elements, rows, c)
    IN  IF QuantityRaises(required_elements, rows, c)
        THEN [outcome |-> "ValueError", required |-> required_elements,
              missing |-> <<>>, df |-> <<>>, msg |-> "none"]
        ELSE [outcome |-> "returned",
              required |-> required_elements,
              missing |-> missing_elements,
              df |-> RequiredRows(required_elements, rows, c, 1)
                     \o OtherCanRows(required_elements, rows, 1)
                     \o ScrewRows(required_elements, rows, c),
              msg |-> IF Len(missing_elements) > 0 THEN "Missing elements"
                      ELSE IF c.letter_identifier \in SuccessLetters THEN "SUCCESSFUL"
                      ELSE "none"]


(***************************************************************************)
(* BOM check of the legacy families: Legacy.get_bom_in_content             *)
(***************************************************************************)
AdjustorQuantity == 3
LegacyScrewQuantity == 6

\* Legacy.get_required_elements, keyed by the element type and the letter
legacy_get_required_elements(radar, letter) ==
    IF radar
    THEN CASE letter = "X" -> <<"Radar", "Software", "Dataset", "Label">>
           [] letter = "R" -> <<"Adjustor", "Screw", "Radar", "Software", "Bracket",
                                "Dataset", "Label">>
           [] letter \in {"N", "SC"} -> <<"Radar", "Literature", "Adjusting", "Software",
                                          "Dataset", "Label">>
           [] OTHER -> <<>>
    ELSE IF letter \in {"X", "R", "N", "SC"}
         THEN <<"Dataset", "Label", "Camera", "Software">>
         ELSE <<>>

\* Legacy._get_expected_value
legacy_expected_value(element) ==
    IF element = "Adjustor" THEN AdjustorQuantity
    ELSE IF element = "Screw" THEN LegacyScrewQuantity
    ELSE DefaultQuantity

\* Legacy._handle_radar_missing_elements
legacy_handle_radar_missing_elements(missing_elements, rows) ==
    LET software == SoftwareRows(rows)
        inferred ==
            /\ Contains(missing_elements, "Dataset")
            /\ Cardinality(software) >= 2
            /\ \E i \in software : \/ In("DATASET", Upper(rows[i].description))
                                   \/ In("DATA SET", Upper(rows[i].description))
        m1 == IF inferred THEN ListRemove(missing_elements, "Dataset") ELSE missing_elements
    IN  IF /\ ~Contains(m1, "Software")
           /\ ~\E i \in software : SearchPrefixDigits("BX", VersionDigits, rows[i].description)
        THEN Append(m1, "Software")
        ELSE m1

RECURSIVE LegacyRowsOfElement(_, _, _)
LegacyRowsOfElement(element, rows, i) ==
    IF i > Len(rows) THEN <<>>
    ELSE (IF In(element, rows[i].title)
          THEN <<TableRow(rows[i], legacy_expected_value(element))>> ELSE <<>>)
         \o LegacyRowsOfElement(element, rows, i + 1)

RECURSIVE LegacyRequiredRows(_, _, _)
LegacyRequiredRows(required_elements, rows, k) ==
    IF k > Len(required_elements) THEN <<>>
    ELSE LegacyRowsOfElement(required_elements[k], rows, 1)
         \o LegacyRequiredRows(required_elements, rows, k + 1)

\* Legacy.get_bom_in_content with _generate_report, l holding the stored fields
legacy_get_bom_in_content(l, rows) ==
    LET required_elements == legacy_get_required_elements(l.radar_in_title, l.letter_identifier)
        first == FirstPassMissing(required_elements, rows)
        missing_elements == IF l.radar_in_title /\ l.letter_identifier = "R"
                            THEN legacy_handle_radar_missing_elements(first, rows)
                            ELSE first
    IN  IF Len(required_elements) > 0 /\ \E i \in 1..Len(rows) : ~FloatParses(rows[i].quantity)
        THEN [outcome |-> "ValueError", required |-> required_elements,
              missing |-> <<>>, df |-> <<>>, msg |-> "none"]
        ELSE [outcome |-> "returned",
              required |-> required_elements,
              missing |-> missing_elements,
              df |-> LegacyRequiredRows(required_elements, rows, 1),
              msg |-> IF Len(missing_elements) > 0 THEN "Missing elements"
                      ELSE IF l.letter_identifier \in {"N", "SC", "X", "R"} THEN "SUCCESSFUL"
                      ELSE "none"]

(***************************************************************************)
(* Document validation: Fusion3.validate_required_docs                     *)
(***************************************************************************)
\* one entry of the dictionary built by Utils.find_docs: the title is the key
Doc(name, document_kind, lifecycle_state) ==
    [name |-> name, document_kind |-> document_kind, lifecycle_state |-> lifecycle_state]

required_states == <<"Working", "Proposed", "Rejected", "Approved", "Released">>

F3OptionalDocs(type_dropdown) ==
    IF type_dropdown = "FLR-25 Bracket"
    THEN <<"Feasibility Agreement (FeA) (DMI)", "Mechanical TR Document",
           "Electrical TR Document", "Test Report">>
    ELSE IF type_dropdown = "FLC-25 Bracket"
    THEN <<"Electrical TR Document", "Process Data Sheet">>
    ELSE <<>>

\* the required_docs list chosen from the classification held by the object
F3RequiredDocs(c) ==
    IF c.element_name = "Radar"
    THEN IF c.letter_identifier = "R"
         THEN <<"Assembly Drawing", "Installation Drawing", "Component Drawing",
                "Service Data">>
         ELSE <<"Assembly Drawing", "Component Drawing", "Service Data">>
    ELSE IF c.element_name = "Bracket"
    THEN IF c.type_dropdown = "FLC-25 Bracket"
         THEN <<"Technical Customer Document", "Assembly Drawing",
                "Installation Drawing">> \o F3OptionalDocs(c.type_dropdown)
         ELSE IF c.is_am_bracket THEN <<>>
         ELSE <<"Material Specification", "Supplier PPAP", "Order Drawing", "DVP">>
              \o F3OptionalDocs(c.type_dropdown)
    ELSE IF c.element_name = "Cover" /\ c.type_dropdown = "FLC-25 Cover"
    THEN IF c.is_am_bracket THEN <<"Component Drawing">>
         ELSE <<"Installation Drawing", "Component Drawing">>
    ELSE IF c.letter_identifier = "R"
    THEN <<"Assembly Drawing", "Installation Drawing", "Service Data">>
    ELSE <<"Assembly Drawing", "Service Data">>

\* the same selection without the lifecycle_state condition of the query
RECURSIVE FilterRequired_AnyState(_, _, _)
FilterRequired_AnyState(docs, required_docs, states) ==
    IF docs = <<>> THEN <<>>
    ELSE (IF Contains(required_docs, Head(docs).document_kind)
          THEN <<Head(docs)>> ELSE <<>>)
         \o FilterRequired_AnyState(Tail(docs), required_docs, states)

\* documents_df.query / boolean indexing: the records of a required kind in an
\* accepted state, in the order of the dictionary
RECURSIVE FilterRequired(_, _, _)
FilterRequired(docs, required_docs, states) ==
    IF docs = <<>> THEN <<>>
    ELSE (IF Contains(required_docs, Head(docs).document_kind)
             /\ Contains(states, Head(docs).lifecycle_state)
          THEN <<Head(docs)>> ELSE <<>>)
         \o FilterRequired(Tail(docs), required_docs, states)

RECURSIVE OfKind(_, _)
OfKind(docs, doc_type) ==
    IF docs = <<>> THEN <<>>
    ELSE (IF Head(docs).document_kind = doc_type THEN <<Head(docs)>> ELSE <<>>)
         \o OfKind(Tail(docs), doc_type)

PresentEntry(d) ==
    [Document |-> d.name, Document_Kind |-> d.document_kind,
     Lifecycle_State |-> d.lifecycle_state]

RECURSIVE PresentOfKind(_, _)
PresentOfKind(docs, doc_type) ==
    IF docs = <<>> THEN <<>>
    ELSE (IF Head(docs).document_kind = doc_type THEN <<PresentEntry(Head(docs))>> ELSE <<>>)
         \o PresentOfKind(Tail(docs), doc_type)

\* str.split(",")
RECURSIVE SplitComma(_)
SplitComma(s) ==
    IF ~In(",", s) THEN <<s>>
    ELSE LET k == CHOOSE i \in 1..Len(s) :
                      Char(s, i) = "," /\ \A j \in 1..(i - 1) : Char(s, j) # ","
         IN  <<SubSeq(s, 1, k - 1)>> \o SplitComma(SubSeq(s, k + 1, Len(s)))

\* [lang.strip() for lang in index.split(",")[1:]]
title_langs(index) ==
    LET tokens == SplitComma(index)
    IN  {Strip(tokens[k]) : k \in 2..Len(tokens)}

\* the same flag when a title's 'EN' is not taken for 'US'
LangMissing_NoEN(lang, service_docs) ==
    ~\E k \in 1..Len(service_docs) : lang \in title_langs(service_docs[k].name)

\* the flag of one target language after the accepted Service Data records were read
LangMissing(lang, service_docs) ==
    ~\E k \in 1..Len(service_docs) :
        \/ lang \in title_langs(service_docs[k].name)
        \/ lang = "US" /\ "EN" \in title_langs(service_docs[k].name)

has_schedule(d) == In("schedule", Lower(d.name))

\* the same branch with the CAD drawing asked of any schedule record instead of all
AssemblyMissing_AnySchedule(assembly_docs) ==
    IF assembly_docs = <<>> THEN <<"Assembly Drawing Schedule", "Assembly Drawing CAD">>
    ELSE (IF ~\E k \in 1..Len(assembly_docs) : has_schedule(assembly_docs[k])
          THEN <<"Assembly Drawing Schedule">> ELSE <<>>)
         \o (IF \E k \in 1..Len(assembly_docs) : has_schedule(assembly_docs[k])
             THEN <<"Assembly Drawing CAD">> ELSE <<>>)

\* what the Assembly Drawing branch adds to missing_docs
AssemblyMissing(assembly_docs) ==
    IF assembly_docs = <<>> THEN <<"Assembly Drawing Schedule", "Assembly Drawing CAD">>
    ELSE (IF ~\E k \in 1..Len(assembly_docs) : has_schedule(assembly_docs[k])
          THEN <<"Assembly Drawing Schedule">> ELSE <<>>)
         \o (IF \A k \in 1..Len(assembly_docs) : has_schedule(assembly_docs[k])
             THEN <<"Assembly Drawing CAD">> ELSE <<>>)

\* the loop over required_docs: what it leaves in missing_docs
RECURSIVE MissingLoop(_, _)
MissingLoop(required_docs, required_documents) ==
    IF required_docs = <<>> THEN <<>>
    ELSE LET doc_type == Head(required_docs) IN
         (IF doc_type = "Assembly Drawing"
          THEN AssemblyMissing(OfKind(required_documents, doc_type))
          ELSE IF OfKind(required_documents, doc_type) = <<>> THEN <<doc_type>>
          ELSE <<>>)
         \o MissingLoop(Tail(required_docs), required_documents)

\* the loop over required_docs: what it leaves in present_docs_list
RECURSIVE PresentLoop(_, _)
PresentLoop(required_docs, required_documents) ==
    IF required_docs = <<>> THEN <<>>
    ELSE PresentOfKind(required_documents, Head(required_docs))
         \o PresentLoop(Tail(required_docs), required_documents)

\* for each target language still flagged: 'Service Data' leaves the list, the
\* language-qualified entry is appended
RECURSIVE LanguageRule(_, _, _)
LanguageRule(langs, service_docs, missing_docs) ==
    IF langs = <<>> THEN missing_docs
    ELSE LanguageRule(Tail(langs), service_docs,
             IF LangMissing(Head(langs), service_docs)
             THEN (IF Contains(missing_docs, "Service Data")
                   THEN ListRemove(missing_docs, "Service Data") ELSE missing_docs)
                  \o <<"Service Data - " \o Head(langs)>>
             ELSE missing_docs)

\* FLC-25 Bracket: the entry 'Process Data Sheet' is renamed in the missing list
RECURSIVE RenameProcessDataSheet(_)
RenameProcessDataSheet(missing_docs) ==
    IF missing_docs = <<>> THEN <<>>
    ELSE <<IF Head(missing_docs) = "Process Data Sheet"
           THEN "Process Data Sheet (BWs)" ELSE Head(missing_docs)>>
         \o RenameProcessDataSheet(Tail(missing_docs))

\* position of an accepted state in the alphabetical order sort_values uses
StateRank(state) ==
    CASE state = "Approved" -> 1
      [] state = "Proposed" -> 2
      [] state = "Rejected" -> 3
      [] state = "Released" -> 4
      [] state = "Working" -> 5

\* insertion of one entry behind the entries that do not sort after it
RECURSIVE InsertByState(_, _)
InsertByState(sorted, e) ==
    IF sorted = <<>> THEN <<e>>
    ELSE IF StateRank(Head(sorted).Lifecycle_State) <= StateRank(e.Lifecycle_State)
    THEN <<Head(sorted)>> \o InsertByState(Tail(sorted), e)
    ELSE <<e>> \o sorted

\* DataFrame.sort_values(by="Lifecycle_State"): below 17 rows the default sort is an
\* insertion sort, equal states keep their order
RECURSIVE SortByState(_)
SortByState(present) ==
    IF present = <<>> THEN <<>>
    ELSE InsertByState(SortByState(SubSeq(present, 1, Len(present) - 1)),
                       present[Len(present)])

NamedIn(element, missing_docs) ==
    \E k \in 1..Len(missing_docs) : In(element, missing_docs[k])

\* the optional kinds for which the advisory line is written
RECURSIVE OptionalAdvisories(_, _)
OptionalAdvisories(optional_docs, missing_docs) ==
    IF optional_docs = <<>> THEN <<>>
    ELSE (IF NamedIn(Head(optional_docs), missing_docs)
          THEN <<Head(optional_docs)>> ELSE <<>>)
         \o OptionalAdvisories(Tail(optional_docs), missing_docs)

GenericTypes == {"FLC-20", "FLR-21", "FLC-25", "FLR-25"}

NoDocsResult ==
    [outcome |-> "returned", msg |-> "No documents were found", required_docs |-> <<>>,
     missing_docs |-> <<>>, advisories |-> <<>>, df |-> <<>>]

\* Fusion3.validate_required_docs on the classification c held by the object
validate_required_docs(c, docs) ==
    IF docs = <<>> THEN NoDocsResult
    ELSE
    LET required_docs == F3RequiredDocs(c)
        required_documents == FilterRequired(docs, required_docs, required_states)
        looped == MissingLoop(required_docs, required_documents)
        with_langs == IF c.type_dropdown \in GenericTypes
                      THEN LanguageRule(<<"US">>, OfKind(required_documents, "Service Data"),
                                        looped)
                      ELSE looped
        missing_docs == IF c.type_dropdown = "FLC-25 Bracket"
                        THEN RenameProcessDataSheet(with_langs) ELSE with_langs
        advisories ==
            IF missing_docs = <<>> THEN <<>>
            ELSE (IF c.type_dropdown \in GenericTypes /\ NamedIn("Service Data", missing_docs)
                  THEN <<"Service Data">> ELSE <<>>)
                 \o (IF c.type_dropdown \in BracketTypes
                     THEN OptionalAdvisories(F3OptionalDocs(c.type_dropdown), missing_docs)
                     ELSE <<>>)
    IN  [outcome |-> "returned",
         msg |-> IF missing_docs # <<>> THEN "missing" ELSE "SUCCESSFUL",
         required_docs |-> required_docs,
         missing_docs |-> missing_docs,
         advisories |-> advisories,
         df |-> SortByState(PresentLoop(required_docs, required_documents))]

LegacyRequiredDocs == <<"Assembly Drawing", "Installation Drawing", "Service Data">>

\* Legacy.validate_required_docs with _check_documents and _generate_message
legacy_validate_required_docs(docs) ==
    IF docs = <<>> THEN NoDocsResult
    ELSE
    LET required_documents == FilterRequired(docs, LegacyRequiredDocs, required_states)
        missing_docs ==
            LanguageRule(<<"ES", "US", "FR">>, OfKind(required_documents, "Service Data"),
                         MissingLoop(LegacyRequiredDocs, required_documents))
    IN  [outcome |-> "returned",
         msg |-> IF missing_docs # <<>> THEN "missing" ELSE "SUCCESSFUL",
         required_docs |-> LegacyRequiredDocs,
         missing_docs |-> missing_docs,
         advisories |-> <<>>,
         df |-> PresentLoop(LegacyRequiredDocs, required_documents)]

(***************************************************************************)
(* Aftermarket validation: Fusion3.validate_aftermarket_product            *)
(***************************************************************************)
\* one entry of the dictionaries built by Utils.documents_aftermarket_product
\* and documents_aftermarket_product_for
AmDoc(name, title_id_value, lifecycle_state) ==
    [Document |-> name, Title_ID_value |-> title_id_value,
     Lifecycle_State |-> lifecycle_state]

\* the rows in an accepted state whose title contains the element kind
RECURSIVE FilterAftermarket(_, _)
FilterAftermarket(docs, element_name) ==
    IF docs = <<>> THEN <<>>
    ELSE (IF Contains(required_states, Head(docs).Lifecycle_State)
             /\ In(element_name, Head(docs).Title_ID_value)
          THEN <<Head(docs)>> ELSE <<>>)
         \o FilterAftermarket(Tail(docs), element_name)

\* which local name the function reads after its first branch, and whether that
\* branch has bound it
AftermarketSource(c) ==
    IF c.type_dropdown \in BracketTypes \cup CoverTypes
    THEN [bound |-> TRUE, for |-> c.is_am_bracket]
    ELSE [bound |-> ~c.is_am_bracket, for |-> c.is_am_bracket]

\* Fusion3.validate_aftermarket_product: am holds the records of the sections
\* 'Aftermarket Product' (product) and 'Aftermarket Product For' (product_for)
validate_aftermarket_product(c, am) ==
    IF ~AftermarketSource(c).bound
    THEN [outcome |-> "UnboundLocalError", missing |-> <<>>, df |-> <<>>, msg |-> "none"]
    ELSE
    LET docs == IF AftermarketSource(c).for THEN am.product_for ELSE am.product
        aftermarket_df == SortByState(FilterAftermarket(docs, c.element_name))
        missing_aftermarket_elements ==
            IF \E k \in 1..Len(aftermarket_df) :
                   In(Lower(c.element_name), Lower(aftermarket_df[k].Title_ID_value))
            THEN <<>> ELSE <<c.element_name>>
    IN  [outcome |-> "returned",
         missing |-> missing_aftermarket_elements,
         df |-> aftermarket_df,
         msg |-> IF missing_aftermarket_elements # <<>> THEN "missing" ELSE "SUCCESSFUL"]

(***************************************************************************)
(* The run handlers of CVSplmAutomation, on the state o of the objects     *)
(***************************************************************************)
BracketCoverTypes == BracketTypes \cup CoverTypes

\* LetterIdentifier.SC, the enum member: no string is equal to it
LetterIdentifier_SC == "LetterIdentifier.SC"

FreshObj ==
    [letter_identifier |-> None, utils_letter |-> None, f3 |-> FreshF3,
     legacy |-> FreshLegacy]

\* the arguments the run handlers pass to initialize_main_params
MainParams(i, letter) ==
    [part_number |-> i.part_number, title_id_value |-> i.title_id_value,
     letter_identifier |-> letter, chbx_bracket |-> i.chbx_bracket,
     chbx_resistor |-> i.chbx_resistor, type_dropdown |-> i.type_dropdown]

\* CVSplmAutomation.is_valid_part_number: the letter it leaves in the automation
\* object, and whether the run goes on
is_valid_part_number(part_number, type_dropdown, letter) ==
    IF type_dropdown \in {"FLC-25", "FLR-25"}
    THEN [letter |-> validate_part_number(part_number),
          ok |-> validate_part_number(part_number) \notin {None, "N"}]
    ELSE IF type_dropdown \in LegacyTypes
    THEN [letter |-> validate_part_number(part_number),
          ok |-> validate_part_number(part_number) # None]
    ELSE [letter |-> letter, ok |-> validate_bracket_cover_number(part_number)]

\* process_automation up to is_valid_part_number
process_automation(o, i) ==
    LET r == is_valid_part_number(i.part_number, i.type_dropdown, o.letter_identifier)
    IN  [ok |-> r.ok,
         obj |-> [o EXCEPT !.letter_identifier = r.letter,
                           !.utils_letter = IF i.type_dropdown \in BracketCoverTypes
                                            THEN @ ELSE PartNumberLetter(i.part_number)]]

\* the bracket/cover families take their letter from the title
identify_bracket_cover(o, i) ==
    IF i.type_dropdown \in BracketCoverTypes
    THEN LET letter == get_identifier_bracket_cover(i.title_id_value, i.type_dropdown,
                                                    o.utils_letter)
         IN  [o EXCEPT !.letter_identifier = letter, !.utils_letter = letter]
    ELSE o

\* the identifier, Fusion3.initialize_main_params, then Fusion3.is_AM_bracket for
\* the bracket/cover families when the classification did not raise
classify_fusion3(o, i) ==
    LET o1 == identify_bracket_cover(o, i)
        r == initialize_main_params(o1.f3, MainParams(i, o1.letter_identifier))
    IN  [raised |-> r.raised,
         obj |-> [o1 EXCEPT !.f3 =
                     IF ~r.raised /\ i.type_dropdown \in BracketCoverTypes
                     THEN [r.f3 EXCEPT !.is_am_bracket = is_AM_bracket(i.sales_chann_limit)]
                     ELSE r.f3]]

Stopped(o) == [outcome |-> "stopped", obj |-> o, result |-> [outcome |-> "none"]]

Raised(error, o) == [outcome |-> error, obj |-> o, result |-> [outcome |-> "none"]]

\* CVSplmAutomation.execute_bom_automation
execute_bom_automation(o, i, rows) ==
    IF ~validate_type_number(i.type_number, i.type_dropdown) THEN Stopped(o)
    ELSE IF i.type_dropdown \in Fusion3Types
    THEN LET c == classify_fusion3(o, i)
             r == get_bom_in_content(c.obj.f3, rows)
         IN  IF c.raised THEN Raised("classification error", c.obj)
             ELSE IF r.outcome # "returned" THEN Raised(r.outcome, c.obj)
             ELSE [outcome |-> "done",
                   obj |-> [c.obj EXCEPT !.f3.is_am_bracket = FALSE],
                   result |-> r]
    ELSE LET l == legacy_initialize_main_params(o.legacy, MainParams(i, o.letter_identifier))
             r == legacy_get_bom_in_content(l.legacy, rows)
             o1 == [o EXCEPT !.legacy = l.legacy]
         IN  IF l.raised THEN Raised("classification error", o1)
             ELSE IF r.outcome # "returned" THEN Raised(r.outcome, o1)
             ELSE [outcome |-> "done", obj |-> o1, result |-> r]

\* CVSplmAutomation.initialize_validate_content
initialize_validate_content(o, i, docs) ==
    IF i.type_dropdown \in Fusion3Types
    THEN LET r == initialize_main_params(o.f3, MainParams(i, o.letter_identifier))
             o1 == [o EXCEPT !.f3 = r.f3]
         IN  IF r.raised THEN Raised("classification error", o1)
             ELSE [outcome |-> "done", obj |-> o1,
                   result |-> validate_required_docs(r.f3, docs)]
    ELSE LET l == legacy_initialize_main_params(o.legacy, MainParams(i, o.letter_identifier))
             o1 == [o EXCEPT !.legacy = l.legacy]
         IN  IF l.raised THEN Raised("classification error", o1)
             ELSE [outcome |-> "done", obj |-> o1,
                   result |-> legacy_validate_required_docs(docs)]

\* the records find_docs reads on the X part of a kit: none in these inputs
PartXDocuments == <<>>

\* CVSplmAutomation.execute_sc_content: the documents of the part itself, then
\* those of the X part named in the Content tab; an exception is logged and the
\* results gathered so far are returned
execute_sc_content(o, i, rows, docs) ==
    LET r == initialize_validate_content(o, i, docs)
        partX == get_partX_name_in_content(rows)
        x == initialize_validate_content(r.obj, [i EXCEPT !.part_number = partX],
                                         PartXDocuments)
    IN  IF partX = None \/ r.outcome # "done"
        THEN [outcome |-> "done", obj |-> r.obj, result |-> r.result]
        ELSE [outcome |-> "done", obj |-> x.obj,
              result |-> r.result @@ [partX |-> [part_number |-> partX,
                                                 result |-> x.result]]]

\* the same handler when the aftermarket bracket goes on to the validation
execute_content_automation_NoShortCircuit(o, i, rows, docs) ==
    IF ~validate_type_number(i.type_number, i.type_dropdown) THEN Stopped(o)
    ELSE
    LET o1 == identify_bracket_cover(o, i)
        o2 == IF i.type_dropdown \in BracketCoverTypes
              THEN [o1 EXCEPT !.f3.is_am_bracket = is_AM_bracket(i.sales_chann_limit)]
              ELSE o1
    IN  IF o2.letter_identifier = LetterIdentifier_SC
        THEN execute_sc_content(o2, i, rows, docs)
        ELSE initialize_validate_content(o2, i, docs)

\* CVSplmAutomation.execute_content_automation
execute_content_automation(o, i, rows, docs) ==
    IF ~validate_type_number(i.type_number, i.type_dropdown) THEN Stopped(o)
    ELSE
    LET o1 == identify_bracket_cover(o, i)
        o2 == IF i.type_dropdown \in BracketCoverTypes
              THEN [o1 EXCEPT !.f3.is_am_bracket = is_AM_bracket(i.sales_chann_limit)]
              ELSE o1
    IN  IF /\ i.type_dropdown \in BracketCoverTypes
           /\ o2.f3.is_am_bracket
           /\ i.type_dropdown = "FLR-25 Bracket"
        THEN [outcome |-> "no documents required",
              obj |-> [o2 EXCEPT !.f3.is_am_bracket = FALSE],
              result |-> [outcome |-> "none"]]
        ELSE IF o2.letter_identifier = LetterIdentifier_SC
        THEN execute_sc_content(o2, i, rows, docs)
        ELSE initialize_validate_content(o2, i, docs)

\* CVSplmAutomation.execute_aftermarket_automation for the Fusion 3 families
execute_aftermarket_automation(o, i, am) ==
    IF ~validate_type_number(i.type_number, i.type_dropdown) THEN Stopped(o)
    ELSE
    LET c == classify_fusion3(o, i)
        r == validate_aftermarket_product(c.obj.f3, am)
    IN  IF c.raised THEN Raised("classification error", c.obj)
        ELSE IF r.outcome # "returned" THEN Raised(r.outcome, c.obj)
        ELSE [outcome |-> "done",
              obj |-> [c.obj EXCEPT !.f3.is_am_bracket = FALSE],
              result |-> r]

(***************************************************************************)
(* Inputs                                                                  *)
(***************************************************************************)
MaxRows == 2

\* the Type Number attribute of a part of the family
FamilyTypeNumber(type_dropdown) ==
    IF type_dropdown = "FLR-25 Bracket" THEN "FLR-25"
    ELSE IF type_dropdown \in {"FLC-25 Bracket", "FLC-25 Cover"} THEN "FLC-25"
    ELSE type_dropdown

\* one part as the PLM page shows it, with the widgets of the run
Input(part_number, title_id_value, type_dropdown, chbx_bracket, chbx_resistor, am) ==
    [part_number |-> part_number, title_id_value |-> title_id_value,
     type_dropdown |-> type_dropdown,
     chbx_bracket |-> chbx_bracket, chbx_resistor |-> chbx_resistor,
     sales_chann_limit |-> am,
     type_number |-> FamilyTypeNumber(type_dropdown),
     option |-> "BOM Structure"]

Fusion3PartNumbers == {"K123X45", "K123R45", "K123SC45"}

RadarInputs ==
    {Input(pn, "Radar Sensor", "FLR-25", b, r, "") :
        pn \in Fusion3PartNumbers, b \in BOOLEAN, r \in BOOLEAN}

CameraInputs ==
    {Input(pn, "CAMERA FLC", "FLC-25", FALSE, FALSE, "") : pn \in Fusion3PartNumbers}

BracketInputs ==
    {Input("K200", t[1], t[2], FALSE, FALSE, am) :
        t \in {<<"Bracket Assembly", "FLR-25 Bracket">>,
               <<"Bracket Assembly", "FLC-25 Bracket">>,
               <<"Cover", "FLC-25 Cover">>},
        am \in {"AM only", "OE"}}

RadarRows ==
    {Row("Software", "1", "VER FU123456", "K1"),
     Row("Software", "1", "Boot Software", "K2"),
     Row("Software", "1", "Data Set VER FU123456", "K3"),
     Row("Dataset", "1", "Config", "K4"),
     Row("Radar", "1", "with CAN termination", "K218450H002"),
     Row("Radar", "1", "with CAN termination", "K000000H000"),
     Row("Radar", "1", "wo CAN termination", "k188333h002"),
     Row("Sensor", "1", "with CAN termination", "K218450H002"),
     Row("Boot Software", "1", "boot", "K5"),
     Row("Screw", "2", "M6", "K6"),
     Row("Hex screw", "4", "M8", "K8"),
     Row("Software", "", "VER FU123456", "K7")}

CameraRows ==
    {Row("Camera", "1", "", "K188332H000"),
     Row("Camera", "1.0", "", "K000000H000"),
     Row("FLC camera", "1", "", "K188332H000"),
     Row("Software", "1", "NA123456", "K1"),
     Row("Software", "1", "Boot NA654321", "K2"),
     Row("Software", "1", "dataset NA123456", "K3"),
     Row("Dataset", "1", "", "K4"),
     Row("Screw", "3", "M6", "K6"),
     Row("SOFTWARE", "n/a", "NA12345", "K7")}

BracketRows ==
    {Row("Bracket", "1", "", "K10"),
     Row("Bracket Assembly", "1", "", "K11"),
     Row("BRACKET", "1", "", "K12"),
     Row("Nut", "3", "", "K13"),
     Row("Nut", "1", "", "K14"),
     Row("Screw", "3.0", "", "K15"),
     Row("Worm", "1", "", "K16"),
     Row("Tape", "", "", "K17"),
     Row("Cover", "1", "", "K18"),
     Row("Cover", "2", "", "K19")}

BomInputs ==
    (RadarInputs \X SeqsUpTo(RadarRows, MaxRows))
    \cup (CameraInputs \X SeqsUpTo(CameraRows, MaxRows))
    \cup (BracketInputs \X SeqsUpTo(BracketRows, MaxRows))

NoResult == [outcome |-> "none"]

(***************************************************************************)
(* One BOM run on fresh objects: part number, classification, BOM          *)
(***************************************************************************)
\* no file has been downloaded
NoSchedule ==
    /\ schedule_data = <<>>
    /\ main_title = <<>>
    /\ schedule_result = <<>>

NoIni ==
    /\ file_name_path = ""
    /\ archive = <<>>
    /\ ini_result = NoResult
    /\ NoSchedule

NoAttributes ==
    /\ attr_page = <<>>
    /\ attr_result = NoResult
    /\ pdf_result = NoResult

\* CVSplmAutomation.__init__: the button is created disabled
NoReport == btn_generate_pdf = [disabled |-> TRUE]

NoComparison ==
    /\ df_reference = <<>>
    /\ df_downloaded = <<>>
    /\ hash_seed = <<>>
    /\ reports = <<>>
    /\ NoAttributes
    /\ NoIni
    /\ NoReport

InitOn(inputs) ==
    /\ phase = "start"
    /\ \E p \in inputs : ctx = p[1] /\ titles = p[2]
    /\ documents = <<>>
    /\ am_docs = [product |-> <<>>, product_for |-> <<>>]
    /\ letter_identifier = None
    /\ utils_letter = None
    /\ f3 = FreshF3
    /\ legacy = FreshLegacy
    /\ bom_result = NoResult
    /\ docs_result = NoResult
    /\ am_result = NoResult
    /\ run_count = 0
    /\ NoComparison

\* the state of the objects
Obj ==
    [letter_identifier |-> letter_identifier, utils_letter |-> utils_letter,
     f3 |-> f3, legacy |-> legacy]

SetObj(o) ==
    /\ letter_identifier' = o.letter_identifier
    /\ utils_letter' = o.utils_letter
    /\ f3' = o.f3
    /\ legacy' = o.legacy

\* process_automation 1125-1139
IsValidPartNumber ==
    /\ phase = "start"
    /\ LET r == process_automation(Obj, ctx) IN
        /\ SetObj(r.obj)
        /\ phase' = IF r.ok THEN "valid" ELSE "rejected"
    /\ btn_generate_pdf' = [disabled |-> TRUE]
    /\ UNCHANGED <<partVars, resVars, run_count, fileVars, attrVars, iniVars>>

\* execute_bom_automation 573-610 for the Fusion 3 types: the type number, the
\* bracket/cover identifier, the classification, then the aftermarket flag
InitializeMainParams ==
    /\ phase = "valid"
    /\ ctx.option = "BOM Structure"
    /\ ctx.type_dropdown \in Fusion3Types
    /\ IF ~validate_type_number(ctx.type_number, ctx.type_dropdown)
       THEN phase' = "stopped" /\ UNCHANGED objVars
       ELSE LET c == classify_fusion3(Obj, ctx) IN
             /\ SetObj(c.obj)
             /\ phase' = IF c.raised THEN "error" ELSE "classified"
    /\ UNCHANGED <<partVars, resVars, run_count, cmpVars>>

\* execute_bom_automation 573-576 and 623-632 for FLC-20 / FLR-21
LegacyInitializeMainParams ==
    /\ phase = "valid"
    /\ ctx.option = "BOM Structure"
    /\ ctx.type_dropdown \in LegacyTypes
    /\ IF ~validate_type_number(ctx.type_number, ctx.type_dropdown)
       THEN phase' = "stopped" /\ UNCHANGED legacy
       ELSE LET r == legacy_initialize_main_params(legacy, MainParams(ctx, letter_identifier))
            IN  /\ phase' = IF r.raised THEN "error" ELSE "classified"
                /\ legacy' = r.legacy
    /\ UNCHANGED <<partVars, letter_identifier, utils_letter, f3, resVars, run_count, cmpVars>>

\* execute_bom_automation 620-621: get_bom_in_content on the rows of the Content
\* tab; the aftermarket flag is cleared when it returns
GetBomInContent ==
    /\ phase = "classified"
    /\ ctx.type_dropdown \in Fusion3Types
    /\ LET r == get_bom_in_content(f3, titles) IN
        /\ bom_result' = r
        /\ f3' = IF r.outcome = "returned" THEN [f3 EXCEPT !.is_am_bracket = FALSE] ELSE f3
        /\ btn_generate_pdf' = IF r.outcome = "returned" THEN [disabled |-> FALSE]
                               ELSE btn_generate_pdf
    /\ phase' = "done"
    /\ UNCHANGED <<partVars, letter_identifier, utils_letter, legacy, docs_result,
                   am_result, run_count, fileVars, attrVars, iniVars>>

\* execute_bom_automation 633: Legacy.get_bom_in_content
LegacyGetBomInContent ==
    /\ phase = "classified"
    /\ ctx.type_dropdown \in LegacyTypes
    /\ LET r == legacy_get_bom_in_content(legacy, titles) IN
        /\ bom_result' = r
        /\ btn_generate_pdf' = IF r.outcome = "returned" THEN [disabled |-> FALSE]
                               ELSE btn_generate_pdf
    /\ phase' = "done"
    /\ UNCHANGED <<partVars, objVars, docs_result, am_result, run_count,
                   fileVars, attrVars, iniVars>>

InitBom == InitOn(BomInputs)

NextBom == IsValidPartNumber \/ InitializeMainParams \/ GetBomInContent

SpecBom == InitBom /\ [][NextBom]_vars

(***************************************************************************)
(* Classification of one part: every type, titles with and without the     *)
(* keywords, part numbers with and without a variant letter                *)
(***************************************************************************)
ClassifyTitles ==
    {"Radar Sensor", "FLR25 RADAR", "Camera", "Front Assembly", "Radar Camera Kit",
     "Bracket Assembly", "BRACKET ASSEMBLY RADAR", "Bracket", "Cover", "Camera cover",
     "Bracket Assembly Cover"}

VariantPartNumbers ==
    {"K123X45", "K1R2", "K12SC3", "K1N2", "K123", "R1X2", "K1SC2R", "RX1", "123X"}

BracketPartNumbers == {"K200", "Z200"}

ClassifyRows ==
    {Row("Software", "1", "VER FU123456", "K1"),
     Row("Camera", "1", "", "K188332H000"),
     Row("Boot Software", "1", "boot", "K5")}

ClassifyInputs ==
    ({Input(pn, t, ty, FALSE, r, "") :
         pn \in VariantPartNumbers, t \in ClassifyTitles,
         ty \in {"FLR-25", "FLC-25"} \cup LegacyTypes, r \in BOOLEAN}
     \cup {Input(pn, t, ty, FALSE, r, "OE") :
         pn \in BracketPartNumbers, t \in ClassifyTitles,
         ty \in BracketTypes \cup CoverTypes, r \in BOOLEAN})
    \X SeqsUpTo(ClassifyRows, 1)

InitClassify == InitOn(ClassifyInputs)

NextClassify ==
    \/ IsValidPartNumber
    \/ InitializeMainParams
    \/ LegacyInitializeMainParams
    \/ GetBomInContent
    \/ LegacyGetBomInContent

SpecClassify == InitClassify /\ [][NextClassify]_vars

(***************************************************************************)
(* One document validation run on fresh objects                            *)
(***************************************************************************)
MaxDocs == 2

WithOption(i, option) == [i EXCEPT !.option = option]

DocCatalog ==
    {Doc("Assembly Drawing Schedule", "Assembly Drawing", "Released"),
     Doc("Assembly CAD", "Assembly Drawing", "Working"),
     Doc("Assembly schedule old", "Assembly Drawing", "Obsolete"),
     Doc("Service Data, EN", "Service Data", "Approved"),
     Doc("Service Data, ES, FR", "Service Data", "Released"),
     Doc("DocX, FR", "Service Data", "Working"),
     Doc("Service Data, US", "Service Data", "Obsolete"),
     Doc("Installation", "Installation Drawing", "Proposed"),
     Doc("Installation old", "Installation Drawing", "Obsolete"),
     Doc("Component", "Component Drawing", "Rejected"),
     Doc("Process sheet", "Process Data Sheet", "Released"),
     Doc("Order", "Order Drawing", "In Review"),
     Doc("Customer document", "Technical Customer Document", "Released"),
     Doc("Material", "Material Specification", "Working")}

\* a dictionary has each title once
DocLists(n) ==
    {ds \in SeqsUpTo(DocCatalog, n) :
        \A j, k \in 1..Len(ds) : j # k => ds[j].name # ds[k].name}

DocsParts ==
    {Input(pn, t[1], t[2], FALSE, FALSE, "") :
        pn \in {"K123X45", "K123R45"},
        t \in {<<"Radar Sensor", "FLR-25">>, <<"CAMERA FLC", "FLC-25">>,
               <<"Radar", "FLR-21">>, <<"Camera", "FLC-20">>}}
    \cup {Input("K200", t[1], t[2], FALSE, FALSE, am) :
        t \in {<<"Bracket Assembly", "FLR-25 Bracket">>,
               <<"Bracket Assembly", "FLC-25 Bracket">>,
               <<"Cover", "FLC-25 Cover">>},
        am \in {"AM only", "OE"}}
    \cup {Input("K123X45", "Front Assembly", "FLC-25", FALSE, FALSE, ""),
          [Input("K123X45", "Radar Sensor", "FLR-25", FALSE, FALSE, "")
              EXCEPT !.type_number = "FLR-21"]}
    \cup {Input("K123SC45", "Radar Sensor", "FLR-25", FALSE, FALSE, ""),
          Input("K123SC45", "CAMERA FLC", "FLC-25", FALSE, FALSE, "")}

\* the Content tab of the part: a kit holds its X part, the other parts are
\* taken with and without one for the radar only
DocsContent(i) ==
    IF i.part_number = "K123SC45" \/ (i.part_number = "K123R45" /\ i.type_dropdown = "FLR-25")
    THEN {<<>>, <<Row("Radar Sensor", "1", "", "K456X78")>>}
    ELSE {<<>>}

InitDocs ==
    /\ phase = "start"
    /\ \E i \in DocsParts : ctx = WithOption(i, "Document Validation")
    /\ titles \in DocsContent(ctx)
    /\ documents \in DocLists(MaxDocs)
    /\ am_docs = [product |-> <<>>, product_for |-> <<>>]
    /\ letter_identifier = None
    /\ utils_letter = None
    /\ f3 = FreshF3
    /\ legacy = FreshLegacy
    /\ bom_result = NoResult
    /\ docs_result = NoResult
    /\ am_result = NoResult
    /\ run_count = 0
    /\ NoComparison

\* execute_content_automation: the whole handler on the records of the part
ExecuteContentAutomation ==
    /\ phase = "valid"
    /\ ctx.option = "Document Validation"
    /\ LET r == execute_content_automation(Obj, ctx, titles, documents) IN
        /\ SetObj(r.obj)
        /\ phase' = r.outcome
        /\ docs_result' = IF r.outcome = "done" THEN r.result ELSE docs_result
        /\ btn_generate_pdf' = IF r.outcome = "done" THEN [disabled |-> FALSE]
                               ELSE btn_generate_pdf
    /\ UNCHANGED <<partVars, bom_result, am_result, run_count, fileVars, attrVars, iniVars>>

NextDocs == IsValidPartNumber \/ ExecuteContentAutomation

SpecDocs == InitDocs /\ [][NextDocs]_vars

(***************************************************************************)
(* A sequence of runs on one automation object (Fusion 3 families)         *)
(***************************************************************************)
MaxRuns == 3

RunParts ==
    {Input("K123X45", "Radar Sensor", "FLR-25", FALSE, FALSE, ""),
     Input("K123", "Radar Sensor", "FLR-25", FALSE, FALSE, ""),
     Input("K123X45", "Front Assembly", "FLC-25", FALSE, FALSE, ""),
     [Input("K123X45", "CAMERA FLC", "FLC-25", FALSE, FALSE, "")
         EXCEPT !.type_number = "FLC-20"],
     Input("K200", "Bracket Assembly", "FLC-25 Bracket", FALSE, FALSE, "AM only"),
     Input("K200", "Bracket Assembly", "FLC-25 Bracket", FALSE, FALSE, "OE"),
     Input("K200", "Bracket Assembly", "FLR-25 Bracket", FALSE, FALSE, "AM only"),
     Input("K200", "Cover", "FLC-25 Cover", FALSE, FALSE, "AM only")}

RunRows ==
    {<<>>, <<Row("Cover", "1", "", "K19")>>, <<Row("Cover", "", "", "K19")>>}

RunDocs == {<<>>, <<Doc("Component", "Component Drawing", "Rejected")>>}

NoAmDocs == [product |-> <<>>, product_for |-> <<>>]

RunAmDocs ==
    {NoAmDocs,
     [product |-> <<AmDoc("A1", "Radar kit", "Released")>>,
      product_for |-> <<AmDoc("A2", "Cover kit", "Working")>>]}

NoPart ==
    [part_number |-> "", title_id_value |-> "", type_dropdown |-> "",
     chbx_bracket |-> FALSE, chbx_resistor |-> FALSE, sales_chann_limit |-> "",
     type_number |-> "", option |-> ""]

InitRuns ==
    /\ phase = "idle"
    /\ ctx = NoPart
    /\ titles = <<>>
    /\ documents = <<>>
    /\ am_docs = NoAmDocs
    /\ letter_identifier = None
    /\ utils_letter = None
    /\ f3 = FreshF3
    /\ legacy = FreshLegacy
    /\ bom_result = NoResult
    /\ docs_result = NoResult
    /\ am_result = NoResult
    /\ run_count = 0
    /\ NoComparison

Rejected(o) == [outcome |-> "rejected", obj |-> o, result |-> NoResult]

SELECT_OPTION == "-- Select an option --"

\* process_automation 1127-1133: does the run get as far as is_valid_part_number;
\* an empty part number ends it with a message, TypeOption(...) of an option that
\* was not selected raises ValueError
ReachesValidation(i) == i.part_number # "" /\ i.option # SELECT_OPTION

\* process_automation with the handler of the selected option, on the objects o
run_option(o, i, rows, docs, am) ==
    LET v == process_automation(o, i)
    IN  IF i.part_number = ""
        THEN [outcome |-> "no part number", obj |-> o, result |-> NoResult]
        ELSE IF i.option = SELECT_OPTION
        THEN [outcome |-> "option error", obj |-> o, result |-> NoResult]
        ELSE IF ~v.ok THEN Rejected(v.obj)
        ELSE IF i.option = "BOM Structure" THEN execute_bom_automation(v.obj, i, rows)
        ELSE IF i.option = "Document Validation"
        THEN execute_content_automation(v.obj, i, rows, docs)
        ELSE execute_aftermarket_automation(v.obj, i, am)

\* results_to_pdf is one field: a run that completes replaces what an earlier run
\* left there, a run that stops or raises leaves it
StoreResult(r, option) ==
    IF r.outcome = "done"
    THEN /\ bom_result' = IF option = "BOM Structure" THEN r.result ELSE NoResult
         /\ docs_result' = IF option = "Document Validation" THEN r.result ELSE NoResult
         /\ am_result' = IF option = "AfterMarket Parts" THEN r.result ELSE NoResult
    ELSE UNCHANGED resVars

\* what the run r leaves behind: the objects, the results, and the report button,
\* which is_valid_part_number disables and the handler enables after it has
\* assigned results_to_pdf
EndRun(r, i) ==
    /\ SetObj(r.obj)
    /\ phase' = r.outcome
    /\ StoreResult(r, i.option)
    /\ btn_generate_pdf' = IF ReachesValidation(i) THEN [disabled |-> r.outcome # "done"]
                           ELSE btn_generate_pdf

Run(i, rows, docs, am) ==
    /\ run_count < MaxRuns
    /\ run_count' = run_count + 1
    /\ ctx' = i
    /\ titles' = rows
    /\ documents' = docs
    /\ am_docs' = am
    /\ EndRun(run_option(Obj, i, rows, docs, am), i)
    /\ UNCHANGED <<fileVars, attrVars, iniVars>>

\* execute_automation with the option 'BOM Structure'
RunBomStructure ==
    \E i \in RunParts, rows \in RunRows :
        Run(WithOption(i, "BOM Structure"), rows, <<>>, NoAmDocs)

\* execute_automation with the option 'Document Validation'
RunDocumentValidation ==
    \E i \in RunParts, docs \in RunDocs :
        Run(WithOption(i, "Document Validation"), <<>>, docs, NoAmDocs)

\* execute_automation with the option 'AfterMarket Parts'
RunAfterMarketParts ==
    \E i \in RunParts, am \in RunAmDocs :
        Run(WithOption(i, "AfterMarket Parts"), <<>>, <<>>, am)

\* the button 'Run' with no part number typed or no option selected
IncompleteParts ==
    {Input("", "", "FLR-25", FALSE, FALSE, ""),
     WithOption(Input("K123X45", "Radar Sensor", "FLR-25", FALSE, FALSE, ""), SELECT_OPTION)}

\* execute_automation on a form that is not filled in
RunIncomplete ==
    \E i \in IncompleteParts : Run(i, <<>>, <<>>, NoAmDocs)

NextRuns == RunBomStructure \/ RunDocumentValidation \/ RunAfterMarketParts \/ RunIncomplete

SpecRuns == InitRuns /\ [][NextRuns]_vars

(***************************************************************************)
(* Comparison of the parameter files: ComparisonExcel.compare_excel_files  *)
(***************************************************************************)
MaxParams == 3
MaxReports == 2

ParamNames == {"Device Code", "Application", "Number of S/C"}

\* the orders in which a set of these names is walked: one per string hash seed,
\* which the interpreter draws when the process starts
HashSeeds ==
    {order \in [1..Cardinality(ParamNames) -> ParamNames] :
        \A j, k \in 1..Cardinality(ParamNames) : j # k => order[j] # order[k]}

\* ComparisonExcel.find_missing_params: a set
find_missing_params(reference, downloaded) ==
    {reference[k] : k \in 1..Len(reference)} \ {downloaded[k] : k \in 1..Len(downloaded)}

\* ComparisonExcel.format_missing_params_message: one line per name, in the order
\* the set is walked under the seed of the process
format_missing_params_message(missing_param_names, seed) ==
    SelectSeq(seed, LAMBDA name : name \in missing_param_names)

\* the Parameter_Name column of pd.merge(..., on="Parameter_Name", how="inner")
RECURSIVE perform_comparison(_, _)
perform_comparison(reference, downloaded) ==
    IF reference = <<>> THEN <<>>
    ELSE SelectSeq(downloaded, LAMBDA name : name = Head(reference))
         \o perform_comparison(Tail(reference), downloaded)

InitParams ==
    /\ phase = "idle"
    /\ ctx = NoPart
    /\ titles = <<>>
    /\ documents = <<>>
    /\ am_docs = NoAmDocs
    /\ letter_identifier = None
    /\ utils_letter = None
    /\ f3 = FreshF3
    /\ legacy = FreshLegacy
    /\ bom_result = NoResult
    /\ docs_result = NoResult
    /\ am_result = NoResult
    /\ run_count = 0
    /\ df_reference \in SeqsUpTo(ParamNames, MaxParams) \ {<<>>}
    /\ df_downloaded \in SeqsUpTo(ParamNames, 1)
    /\ hash_seed \in HashSeeds
    /\ reports = <<>>
    /\ NoAttributes
    /\ NoIni
    /\ NoReport

\* compare_excel_files on the two files, which stay as they are
CompareExcelFiles ==
    /\ Len(reports) < MaxReports
    /\ reports' = Append(reports,
           [msg |-> format_missing_params_message(
                        find_missing_params(df_reference, df_downloaded), hash_seed),
            df |-> perform_comparison(df_reference, df_downloaded)])
    /\ UNCHANGED <<phase, partVars, objVars, resVars, run_count,
                   df_reference, df_downloaded, hash_seed, attrVars, iniVars,
                   btn_generate_pdf>>

\* the notebook kernel is started again: a new process, a new seed
RestartKernel ==
    /\ hash_seed' \in HashSeeds \ {hash_seed}
    /\ UNCHANGED <<phase, partVars, objVars, resVars, run_count,
                   df_reference, df_downloaded, reports, attrVars, iniVars,
                   btn_generate_pdf>>

NextParams == CompareExcelFiles \/ RestartKernel

SpecParams == InitParams /\ [][NextParams]_vars

(***************************************************************************)
(* Attribute validation: Utils.attributes, Utils.get_attribute_values,     *)
(* highlight_row and PDFReportGenerator._apply_conditional_styling         *)
(***************************************************************************)
\* a Python value of the 'Expected Value' column: a string, a list of strings or None
Str(s) == [type |-> "str", items |-> <<s>>]
List(items) == [type |-> "list", items |-> items]
NoneValue == [type |-> "None", items |-> <<>>]

\* the digits a string starts with
RECURSIVE DigitRun(_)
DigitRun(s) ==
    IF s = "" \/ ~IsDigit(Char(s, 1)) THEN ""
    ELSE SubSeq(s, 1, 1) \o DigitRun(SubSeq(s, 2, Len(s)))

\* re.match(r"K\d+", part_number): the match, or None
BasicPartNumber(part_number) ==
    IF Len(part_number) >= 2 /\ Char(part_number, 1) = "K" /\ IsDigit(Char(part_number, 2))
    THEN Str("K" \o DigitRun(SubSeq(part_number, 2, Len(part_number))))
    ELSE NoneValue

Equal(param, expected) ==
    [Parameters |-> param, Expected_Value |-> expected, Should_be_Equal |-> TRUE]

NotEmpty(param) ==
    [Parameters |-> param, Expected_Value |-> Str(""), Should_be_Equal |-> FALSE]

CameraFamily(type_dropdown) == type_dropdown \in {"FLC-20", "FLC-25"}

\* section 'Main Info' of a profile
MainInfoSection(type_dropdown, letter) ==
    <<Equal("Article Type Value", Str("AF; Finished Part")),
      Equal("Saleable Item Type Value",
            Str(CASE letter = "X" -> "N; Not for external sale"
                  [] letter = "N" -> "IE; Exchange Product"
                  [] OTHER -> "IP; Product")),
      Equal("Title ID Value",
            Str(IF CameraFamily(type_dropdown) THEN "Camera; 2687"
                ELSE "Front Radar Assembly; 3753")),
      Equal("Use Status", Str("Series")),
      Equal("Type Number", Str(type_dropdown))>>

DeviceCodes(type_dropdown) ==
    CASE type_dropdown = "FLC-20" -> List(<<"21024", "50017">>)
      [] type_dropdown = "FLR-21" -> List(<<"4963", "50013", "50016">>)
      [] type_dropdown = "FLC-25" -> Str("50024")
      [] type_dropdown = "FLR-25" -> List(<<"50007", "50022">>)

\* section 'Product' of a profile
ProductSection(part_number, type_dropdown, letter) ==
    <<Equal("Product Group", Str(IF CameraFamily(type_dropdown) THEN "29LL" ELSE "29LA")),
      Equal("Product Group Disp",
            Str(IF CameraFamily(type_dropdown) THEN "Forward Looking Camera"
                ELSE "Forward Looking Radar")),
      Equal("Device Code", DeviceCodes(type_dropdown))>>
    \o (IF type_dropdown \in LegacyTypes /\ letter = "N"
        THEN <<Equal("Saleable only to Customer(s)", Str(""))>>
        ELSE IF type_dropdown \in LegacyTypes /\ letter = "SC"
        THEN <<Equal("Saleable only to Customer(s)", Str("All Customers"))>>
        ELSE <<>>)
    \o <<Equal("Sales Channel Limitation",
               Str(CASE letter = "R" -> "OEM only"
                     [] letter = "X" -> "Inter company only"
                     [] OTHER -> "AM only")),
         Equal("Price Book", Str("BXA (air products)")),
         Equal("Basic Part Number", BasicPartNumber(part_number))>>
    \o (IF letter = "R"
           \/ (letter = "SC" /\ type_dropdown \notin LegacyTypes)
        THEN <<NotEmpty("Saleable only to Customer(s)")>>
        ELSE <<>>)

\* sections 'Special Characteristics' and 'Classification' of a profile
CharacteristicsSections(type_dropdown) ==
    <<NotEmpty("Number of S/C"), NotEmpty("Number of C/C"), NotEmpty("Application")>>
    \o (IF CameraFamily(type_dropdown)
        THEN <<NotEmpty("ECU Type"), NotEmpty("CAN Baud Rate"), NotEmpty("Camera Angle"),
               NotEmpty("Vehicle Connector"), NotEmpty("Video Connector"),
               NotEmpty("Camera Cable Length"), NotEmpty("Software Version")>>
        ELSE <<NotEmpty("Product Type"), NotEmpty("CAN Baud Rate"), NotEmpty("Connector"),
               NotEmpty("Connector 2"), NotEmpty("Software Version"),
               NotEmpty("Maximum Operating Temperature"),
               NotEmpty("Minimum Operating Temperature")>>)

\* the letters the catalog has a profile for, per family
CatalogLetters(type_dropdown) ==
    IF type_dropdown \in LegacyTypes THEN {"R", "X", "N", "SC"}
    ELSE IF type_dropdown \in {"FLC-25", "FLR-25"} THEN {"R", "X", "SC"}
    ELSE {}

\* Utils.attributes: required_attributes.get(type, {}).get(letter, {}), its fields in
\* the order get_attribute_values walks them
attributes(part_number, type_dropdown, letter) ==
    IF letter \notin CatalogLetters(type_dropdown) THEN <<>>
    ELSE MainInfoSection(type_dropdown, letter)
         \o ProductSection(part_number, type_dropdown, letter)
         \o CharacteristicsSections(type_dropdown)

\* " or ".join(items), for a list that is not empty
RECURSIVE JoinOr(_)
JoinOr(items) ==
    IF Len(items) = 1 THEN items[1]
    ELSE items[1] \o " or " \o JoinOr(Tail(items))

\* format_device_code
format_device_code(expected) ==
    IF expected.type = "list" /\ Len(expected.items) = 1 THEN Str(expected.items[1])
    ELSE IF expected.type = "list" /\ Len(expected.items) > 1 THEN Str(JoinOr(expected.items))
    ELSE expected

\* modify_expected_value
modify_expected_value(row) ==
    IF row.Parameters \in {"Number of S/C", "Number of C/C"} THEN Str("(Digit, Not Blank)")
    ELSE IF row.Parameters = "Application" THEN Str("(Type of Application, Not Blank)")
    ELSE IF ~row.Should_be_Equal THEN Str("(Not Blank)")
    ELSE row.Expected_Value

\* str.split(" or "): the pieces between the occurrences of the separator
RECURSIVE SplitOr(_)
SplitOr(s) ==
    IF ~In(" or ", s) THEN <<s>>
    ELSE LET k == CHOOSE i \in 1..Len(s) :
                      /\ i + 3 <= Len(s)
                      /\ SubSeq(s, i, i + 3) = " or "
                      /\ \A j \in 1..(i - 1) : SubSeq(s, j, j + 3) # " or "
         IN  <<SubSeq(s, 1, k - 1)>> \o SplitOr(SubSeq(s, k + 4, Len(s)))

\* highlight_row with the Device Code row compared like every other row
highlight_row_TextEquality(x) ==
    IF (Str(x.Actual_Value) # x.Expected_Value /\ x.Should_be_Equal)
       \/ (~x.Should_be_Equal /\ x.Actual_Value = "")
    THEN "red" ELSE "black"

\* highlight_row with the placeholder of a 'not blank' row compared as well
highlight_row_ComparePlaceholder(x) ==
    IF x.Parameters # "Device Code"
    THEN IF Str(x.Actual_Value) # x.Expected_Value THEN "red" ELSE "black"
    ELSE IF x.Expected_Value.type # "str" THEN "AttributeError"
    ELSE IF ~Contains(SplitOr(x.Expected_Value.items[1]), x.Actual_Value) THEN "red"
    ELSE "black"

\* highlight_row: the colour of the row in the on-screen table; a Device Code row
\* whose expected value is no string has no split method
highlight_row(x) ==
    IF x.Parameters # "Device Code"
    THEN IF (Str(x.Actual_Value) # x.Expected_Value /\ x.Should_be_Equal)
            \/ (~x.Should_be_Equal /\ x.Actual_Value = "")
         THEN "red" ELSE "black"
    ELSE IF x.Expected_Value.type # "str" THEN "AttributeError"
    ELSE IF ~Contains(SplitOr(x.Expected_Value.items[1]), x.Actual_Value) THEN "red"
    ELSE "black"

\* Utils.get_attribute: the text the page holds for the attribute, "" when the
\* element is not on the page (NoSuchElementException) or holds no value
get_attribute(page, attr) ==
    IF attr \in DOMAIN page THEN page[attr] ELSE ""

\* the rows get_attribute_values collects, before the Expected Value column is
\* rewritten
RECURSIVE CollectAttributes(_, _)
CollectAttributes(attrs, page) ==
    IF attrs = <<>> THEN <<>>
    ELSE <<[Parameters |-> Head(attrs).Parameters,
            Expected_Value |-> Head(attrs).Expected_Value,
            Actual_Value |-> get_attribute(page, Head(attrs).Parameters),
            Should_be_Equal |-> Head(attrs).Should_be_Equal]>>
         \o CollectAttributes(Tail(attrs), page)

\* the two df.apply passes over the Expected Value column
RewriteExpected(row) ==
    LET formatted ==
            IF row.Parameters = "Device Code"
            THEN [row EXCEPT !.Expected_Value = format_device_code(row.Expected_Value)]
            ELSE row
    IN  [formatted EXCEPT !.Expected_Value = modify_expected_value(formatted)]

\* Utils.get_attribute_values: the table and the colours display(styled_df) shows
get_attribute_values(page, part_number, type_dropdown, letter) ==
    LET collected == CollectAttributes(attributes(part_number, type_dropdown, letter), page)
        df == [k \in 1..Len(collected) |-> RewriteExpected(collected[k])]
        styled == [k \in 1..Len(df) |-> highlight_row(df[k])]
    IN  IF \E k \in 1..Len(df) : styled[k] = "AttributeError"
        THEN [outcome |-> "AttributeError", df |-> <<>>, styled |-> <<>>]
        ELSE [outcome |-> "returned", df |-> df, styled |-> styled]

\* PDFReportGenerator._apply_conditional_styling for ValidationType.ATTRIBUTES: the
\* rows that get the red background
apply_conditional_styling(df) ==
    [i \in 1..Len(df) |->
        LET param == df[i].Parameters
            should_be_equal == df[i].Should_be_Equal
            actual_value == df[i].Actual_Value
            expected == df[i].Expected_Value
        IN  IF param # "Device Code"
            THEN (Str(actual_value) # expected /\ should_be_equal)
                 \/ (~should_be_equal /\ actual_value = "")
            ELSE ~Contains(SplitOr(expected.items[1]), actual_value)]

\* PDFReportGenerator.generate_pdf on the results of an attribute validation
generate_pdf(dfs) ==
    IF dfs.outcome # "returned" THEN [outcome |-> "none"]
    ELSE [outcome |-> "written",
          red |-> IF dfs.df = <<>> THEN <<>> ELSE apply_conditional_styling(dfs.df)]

(***************************************************************************)
(* One attribute validation run, then the report                           *)
(***************************************************************************)
MaxDeviations == 1

AttrParts ==
    {[Input(pn, "", ty, FALSE, FALSE, "") EXCEPT !.option = "Attributes Validation"] :
        pn \in {"K123R45", "K123X45", "K123N45", "K123SC45", "R1X2"},
        ty \in GenericTypes \cup {"FLR-25 Bracket"}}

\* the profile the run of part i will look up
ProfileOf(i) ==
    attributes(i.part_number, i.type_dropdown,
               is_valid_part_number(i.part_number, i.type_dropdown, None).letter)

\* a page on which every attribute of the profile conforms
ConformingPage(profile) ==
    [p \in {profile[k].Parameters : k \in 1..Len(profile)} |->
        LET row == profile[CHOOSE k \in 1..Len(profile) : profile[k].Parameters = p]
        IN  IF ~row.Should_be_Equal THEN "set"
            ELSE IF row.Expected_Value.items = <<>> THEN "K0"
            ELSE row.Expected_Value.items[1]]

\* other values a page may show for an attribute of the profile
Observable(row) ==
    IF row.Parameters = "Device Code"
    THEN {row.Expected_Value.items[k] : k \in 1..Len(row.Expected_Value.items)}
         \cup {"99999", "", JoinOr(row.Expected_Value.items)}
    ELSE IF row.Should_be_Equal THEN {"", "other"}
    ELSE {"", "x", "(Not Blank)", "(Digit, Not Blank)"}

\* the pages that differ from the conforming one in at most n attributes
RECURSIVE AttrPages(_, _)
AttrPages(profile, n) ==
    IF n = 0 THEN {ConformingPage(profile)}
    ELSE LET fewer == AttrPages(profile, n - 1)
         IN  fewer \cup {[page EXCEPT ![profile[k].Parameters] = v] :
                            <<page, k, v>> \in {t \in fewer \X (1..Len(profile)) \X
                                                   {"", "other", "x", "99999", "(Not Blank)",
                                                    "(Digit, Not Blank)", "21024", "50017",
                                                    "21024 or 50017", "4963", "50013",
                                                    "50016", "4963 or 50013 or 50016",
                                                    "50024", "50007", "50022",
                                                    "50007 or 50022"} :
                                                   t[3] \in Observable(profile[t[2]])}}

InitAttrs ==
    /\ phase = "start"
    /\ ctx \in AttrParts
    /\ titles = <<>>
    /\ documents = <<>>
    /\ am_docs = NoAmDocs
    /\ letter_identifier = None
    /\ utils_letter = None
    /\ f3 = FreshF3
    /\ legacy = FreshLegacy
    /\ bom_result = NoResult
    /\ docs_result = NoResult
    /\ am_result = NoResult
    /\ run_count = 0
    /\ df_reference = <<>>
    /\ df_downloaded = <<>>
    /\ hash_seed = <<>>
    /\ reports = <<>>
    /\ attr_page \in AttrPages(ProfileOf(ctx), MaxDeviations)
    /\ attr_result = NoResult
    /\ pdf_result = NoResult
    /\ NoIni
    /\ NoReport

\* execute_based_on_option and execute_attributes_validation: the option is run
\* for the four sensor families only; the result of validate_type_number is not
\* looked at
ExecuteAttributesValidation ==
    /\ phase = "valid"
    /\ ctx.option = "Attributes Validation"
    /\ IF ctx.type_dropdown \notin GenericTypes
       THEN phase' = "no valid option" /\ UNCHANGED <<attr_result, btn_generate_pdf>>
       ELSE LET r == get_attribute_values(attr_page, ctx.part_number, ctx.type_dropdown,
                                          letter_identifier)
            IN  /\ attr_result' = r
                /\ phase' = IF r.outcome = "returned" THEN "done" ELSE r.outcome
                /\ btn_generate_pdf' = IF r.outcome = "returned" THEN [disabled |-> FALSE]
                                       ELSE btn_generate_pdf
    /\ UNCHANGED <<partVars, objVars, resVars, run_count, fileVars, iniVars, attr_page, pdf_result>>

\* PDFReportGenerator.generate_pdf on results_to_pdf
GeneratePdf ==
    /\ phase = "done"
    /\ ctx.option = "Attributes Validation"
    /\ pdf_result' = generate_pdf(attr_result)
    /\ phase' = "reported"
    /\ UNCHANGED <<partVars, objVars, resVars, run_count, fileVars, iniVars, attr_page, attr_result,
                   btn_generate_pdf>>

NextAttrs == IsValidPartNumber \/ ExecuteAttributesValidation \/ GeneratePdf

SpecAttrs == InitAttrs /\ [][NextAttrs]_vars

(***************************************************************************)
(* The catalogs looked up with any key: initialize_main_params called with *)
(* any variant string, then the BOM check; get_attribute_values called     *)
(* with any family and variant, then the report                            *)
(***************************************************************************)
CatalogKeys == {"R", "X", "SC", "N", "B", "Z"}

CatalogTitles == {"Radar Sensor", "Camera", "Bracket Assembly", "Cover"}

CatalogRows ==
    {Row("Radar Sensor", "1", "wo CAN termination", "K188333H002"),
     Row("Software", "one", "VER FU123456", "K1"),
     Row("Screw", "3", "", "K9"),
     Row("Adjustor", "3", "", "K8"),
     Row("Nut", "3", "", "K13")}

AllTypes == Fusion3Types \cup LegacyTypes

CatalogParts ==
    {Input("K123X45", t, ty, FALSE, FALSE, "") : t \in CatalogTitles, ty \in AllTypes}
    \cup {[Input("K123X45", "", ty, FALSE, FALSE, "") EXCEPT !.option = "Attributes Validation"] :
             ty \in AllTypes}

CatalogPages == {<<>>, [p \in {"Device Code"} |-> "50017"]}

InitCatalog ==
    /\ phase = "start"
    /\ ctx \in CatalogParts
    /\ letter_identifier \in CatalogKeys
    /\ IF ctx.option = "BOM Structure"
       THEN titles \in SeqsUpTo(CatalogRows, MaxRows) /\ attr_page = <<>>
       ELSE titles = <<>> /\ attr_page \in CatalogPages
    /\ documents = <<>>
    /\ am_docs = NoAmDocs
    /\ utils_letter = None
    /\ f3 = FreshF3
    /\ legacy = FreshLegacy
    /\ bom_result = NoResult
    /\ docs_result = NoResult
    /\ am_result = NoResult
    /\ run_count = 0
    /\ df_reference = <<>>
    /\ df_downloaded = <<>>
    /\ hash_seed = <<>>
    /\ reports = <<>>
    /\ attr_result = NoResult
    /\ pdf_result = NoResult
    /\ NoIni
    /\ NoReport

\* Fusion3.initialize_main_params with the variant given by the caller
CatalogInitializeMainParams ==
    /\ phase = "start"
    /\ ctx.option = "BOM Structure"
    /\ ctx.type_dropdown \in Fusion3Types
    /\ LET r == initialize_main_params(f3, MainParams(ctx, letter_identifier)) IN
        /\ f3' = r.f3
        /\ phase' = IF r.raised THEN "error" ELSE "classified"
    /\ UNCHANGED <<partVars, letter_identifier, utils_letter, legacy, resVars, run_count,
                   cmpVars>>

\* Legacy.initialize_main_params with the variant given by the caller
CatalogLegacyInitializeMainParams ==
    /\ phase = "start"
    /\ ctx.option = "BOM Structure"
    /\ ctx.type_dropdown \in LegacyTypes
    /\ LET r == legacy_initialize_main_params(legacy, MainParams(ctx, letter_identifier)) IN
        /\ legacy' = r.legacy
        /\ phase' = IF r.raised THEN "error" ELSE "classified"
    /\ UNCHANGED <<partVars, letter_identifier, utils_letter, f3, resVars, run_count,
                   cmpVars>>

\* Utils.get_attribute_values with the family and the variant given by the caller
CatalogGetAttributeValues ==
    /\ phase = "start"
    /\ ctx.option = "Attributes Validation"
    /\ LET r == get_attribute_values(attr_page, ctx.part_number, ctx.type_dropdown,
                                     letter_identifier)
       IN  /\ attr_result' = r
           /\ phase' = IF r.outcome = "returned" THEN "done" ELSE r.outcome
    /\ UNCHANGED <<partVars, objVars, resVars, run_count, fileVars, iniVars, attr_page, pdf_result,
                   btn_generate_pdf>>

NextCatalog ==
    \/ CatalogInitializeMainParams
    \/ CatalogLegacyInitializeMainParams
    \/ GetBomInContent
    \/ LegacyGetBomInContent
    \/ CatalogGetAttributeValues
    \/ GeneratePdf

SpecCatalog == InitCatalog /\ [][NextCatalog]_vars

(***************************************************************************)
(* Comparison with the INI file of a downloaded archive:                   *)
(* ComparisonExcel.comparison_ini, compare_excel_ini_files, get_ini_from_zip *)
(***************************************************************************)
\* str.endswith
EndsWith(s, suffix) ==
    Len(s) >= Len(suffix) /\ SubSeq(s, Len(s) - Len(suffix) + 1, Len(s)) = suffix

\* a member of an archive: its name, whether configparser reads it, and the
\* PARAMETERNAME of its PARAM sections
Member(name, parsable, params) == [name |-> name, parsable |-> parsable, params |-> params]

\* a file zipfile.ZipFile opens, and one it does not (BadZipFile)
Archive(members) == [zip |-> TRUE, members |-> members]
NotAnArchive == [zip |-> FALSE, members |-> <<>>]

\* the rows one member adds to data: none unless it is named *.ini and is read
\* without an exception
MemberRows(member) ==
    IF EndsWith(member.name, ".ini") /\ member.parsable THEN member.params ELSE <<>>

RECURSIVE AllMemberRows(_)
AllMemberRows(members) ==
    IF members = <<>> THEN <<>>
    ELSE MemberRows(Head(members)) \o AllMemberRows(Tail(members))

\* ComparisonExcel.get_ini_from_zip: the Parameter_Name column; an exception is
\* logged and the rows gathered so far are returned
get_ini_from_zip(zip_file) ==
    IF ~zip_file.zip THEN <<>> ELSE AllMemberRows(zip_file.members)

\* ComparisonExcel.compare_excel_ini_files: a frame built from no row has no
\* Parameter_Name column, and reading that column raises KeyError
compare_excel_ini_files(reference, downloaded_file, seed) ==
    LET downloaded == get_ini_from_zip(downloaded_file)
    IN  IF reference = <<>> \/ downloaded = <<>>
        THEN [outcome |-> "KeyError", list |-> <<>>]
        ELSE [outcome |-> "returned",
              list |-> <<[msg |-> format_missing_params_message(
                                      find_missing_params(reference, downloaded), seed),
                          df |-> perform_comparison(reference, downloaded)]>>]

\* ComparisonExcel.comparison_ini: the extension asked for is FileExtension.INI;
\* every exception is logged and answered with an empty list
comparison_ini(path, reference, downloaded_file, seed) ==
    IF EndsWith(path, ".ini")
    THEN LET r == compare_excel_ini_files(reference, downloaded_file, seed)
         IN  IF r.outcome = "returned" THEN r.list ELSE <<>>
    ELSE <<>>

IniPaths == {"K1.zip", "K1.ZIP", "K1.ini", "K1.xlsx", "K1"}

IniArchives ==
    {NotAnArchive,
     Archive(<<>>),
     Archive(<<Member("readme.txt", TRUE, <<"Device Code">>)>>),
     Archive(<<Member("K1.ini", FALSE, <<>>)>>),
     Archive(<<Member("K1.ini", TRUE, <<"Device Code", "Application">>)>>)}

IniParts ==
    {[Input("K123X45", t[1], t[2], FALSE, FALSE, "") EXCEPT !.option = "INI Validation"] :
        t \in {<<"Radar Sensor", "FLR-25">>, <<"CAMERA FLC", "FLC-25">>}}

\* download_excel_file has returned the path of the file of type 'Zip'
InitIni ==
    /\ phase = "downloaded"
    /\ ctx \in IniParts
    /\ titles = <<>>
    /\ documents = <<>>
    /\ am_docs = NoAmDocs
    /\ letter_identifier = "X"
    /\ utils_letter = "X"
    /\ f3 = FreshF3
    /\ legacy = FreshLegacy
    /\ bom_result = NoResult
    /\ docs_result = NoResult
    /\ am_result = NoResult
    /\ run_count = 0
    /\ df_reference \in SeqsUpTo(ParamNames, 1)
    /\ df_downloaded = <<>>
    /\ hash_seed \in HashSeeds
    /\ reports = <<>>
    /\ NoAttributes
    /\ file_name_path \in IniPaths
    /\ archive \in IniArchives
    /\ ini_result = NoResult
    /\ NoSchedule
    /\ NoReport

\* compare_ini_files for FLC-25 and FLR-25: results_to_pdf = comparison_ini(...)
CompareIniFiles ==
    /\ phase = "downloaded"
    /\ ctx.type_dropdown \in {"FLC-25", "FLR-25"}
    /\ ini_result' = comparison_ini(file_name_path, df_reference, archive, hash_seed)
    /\ btn_generate_pdf' = [disabled |-> FALSE]
    /\ phase' = "done"
    /\ UNCHANGED <<partVars, objVars, resVars, run_count, fileVars, attrVars,
                   file_name_path, archive, schedVars>>

NextIni == CompareIniFiles

SpecIni == InitIni /\ [][NextIni]_vars

(***************************************************************************)
(* Schedule against BOM: Legacy.get_bom_schedule_in_content                *)
(***************************************************************************)
MaxScheduleColumns == 1

BomScheduleKey ==
    {"PART NUMBER", "RADAR PART NUMBER", "SW PART NUMBER", "SW VERSION",
     "CONFIG INI DATA SET", "PRODUCT ID LABEL PART NUMBER", "PART NUMBER LABEL", "COVER",
     "JUMPER HARNESS", "BOOT SOFTWARE PART NUMBER", "MAIN SOFTWARE PART NUMBER",
     "SERVICE LABEL", "REMAN CAMERA PART NUMBER", "REMAN LABEL", "LABEL", "BRACKET",
     "CAMERA PART NUMBER"}

\* re.match(r"^K\d+", value)
KNumber(value) == Len(value) >= 2 /\ Char(value, 1) = "K" /\ IsDigit(Char(value, 2))

\* some row has this id and this word in its lower-cased title
IdWithTitle(value, word, rows) ==
    \E k \in 1..Len(rows) : value = rows[k].id /\ In(word, Lower(rows[k].title))

\* Legacy._check_sw_version: BX, digits, then one letter naming the baud rate
check_sw_version(value, main_title_value) ==
    IF ~(Len(value) >= 3 /\ SubSeq(value, 1, 2) = "BX" /\ IsDigit(Char(value, 3)))
    THEN FALSE
    ELSE LET digits == DigitRun(SubSeq(value, 3, Len(value)))
             bx_digits == "BX" \o digits
             character == Upper(SubSeq(value, 3 + Len(digits), Len(value)))
             shown == Upper(main_title_value)
         IN  CASE character = "A" -> In(Upper(bx_digits), shown) /\ In("AUTOBAUD", shown)
               [] character = "H" -> /\ In(Upper(bx_digits), shown)
                                     /\ ~In("AUTOBAUD", shown) /\ In("500K", shown)
               [] character = "L" -> /\ In(Upper(bx_digits), shown)
                                     /\ ~In("AUTOBAUD", shown) /\ In("250K", shown)
               [] OTHER -> FALSE

\* Legacy._check_jumper_harness
check_jumper_harness(value, rows) ==
    IF value = "YES" THEN \E k \in 1..Len(rows) : In("harness", Lower(rows[k].title))
    ELSE IF KNumber(value) THEN IdWithTitle(value, "harness", rows)
    ELSE FALSE

\* Legacy._check_cover
check_cover(value, rows) ==
    IF value = "YES" THEN \E k \in 1..Len(rows) : In("cover", Lower(rows[k].title))
    ELSE IF KNumber(value) THEN IdWithTitle(value, "cover", rows)
    ELSE FALSE

\* Legacy._check_key_in_bom
check_key_in_bom(key, value, rows, main) ==
    CASE key = "PART NUMBER" -> value = main[1].id
      [] key = "RADAR PART NUMBER" -> IdWithTitle(value, "radar", rows)
      [] key = "SW PART NUMBER" -> IdWithTitle(value, "software", rows)
      [] key = "SW VERSION" -> check_sw_version(value, main[1].description)
      [] key = "CONFIG INI DATA SET" ->
             \E k \in 1..Len(rows) :
                 /\ value = rows[k].id
                 /\ \/ In("dataset", Lower(rows[k].description))
                    \/ In("data set", Lower(rows[k].description))
      [] key \in {"PRODUCT ID LABEL PART NUMBER", "PART NUMBER LABEL", "LABEL",
                  "REMAN LABEL"} -> IdWithTitle(value, "label", rows)
      [] key = "JUMPER HARNESS" -> check_jumper_harness(value, rows)
      [] key = "COVER" -> check_cover(value, rows)
      [] key = "BRACKET" -> IdWithTitle(value, "bracket", rows)
      [] key = "CAMERA PART NUMBER" -> IdWithTitle(value, "camera", rows)
      [] key = "BOOT SOFTWARE PART NUMBER" ->
             \E k \in 1..Len(rows) :
                 /\ value = rows[k].id /\ In("software", Lower(rows[k].title))
                 /\ In("boot software", Lower(rows[k].description))
      [] key = "MAIN SOFTWARE PART NUMBER" ->
             \E k \in 1..Len(rows) :
                 /\ value = rows[k].id /\ In("software", Lower(rows[k].title))
                 /\ ~In("boot software", Lower(rows[k].description))
      [] key = "REMAN CAMERA PART NUMBER" -> IdWithTitle(value, "camera", rows)
      [] OTHER -> FALSE

\* the parameters whose verdict is blanked when the value is no K-number
parameters_to_check ==
    {"RADAR PART NUMBER", "SW PART NUMBER", "CONFIG INI DATA SET", "JUMPER HARNESS",
     "PRODUCT ID LABEL PART NUMBER", "PART NUMBER LABEL", "BOOT SOFTWARE PART NUMBER",
     "MAIN SOFTWARE PART NUMBER", "SERVICE LABEL", "REMAN CAMERA PART NUMBER",
     "REMAN LABEL", "LABEL", "BRACKET", "CAMERA PART NUMBER"}

\* Legacy._post_process_dataframe on one row
post_process_dataframe(row) ==
    IF Upper(row.Schedule_Value) = "NO" THEN [row EXCEPT !.Comparison_vs_BOM = "--------"]
    ELSE IF row.Parameter \in parameters_to_check /\ ~KNumber(row.Schedule_Value)
    THEN [row EXCEPT !.Comparison_vs_BOM = "--------"]
    ELSE row

\* Legacy.get_bom_schedule_in_content: one table row for every recognised key, in
\* the order of the schedule row
RECURSIVE get_bom_schedule_in_content(_, _, _)
get_bom_schedule_in_content(data, rows, main) ==
    IF data = <<>> THEN <<>>
    ELSE LET key == data[1][1]
             value == data[1][2]
         IN  (IF key \notin BomScheduleKey THEN <<>>
              ELSE <<post_process_dataframe(
                        [Parameter |-> key, Schedule_Value |-> value,
                         Comparison_vs_BOM |-> IF check_key_in_bom(key, value, rows, main)
                                               THEN "Correct" ELSE "Incorrect"])>>)
             \o get_bom_schedule_in_content(Tail(data), rows, main)

ScheduleValues == {"K100", "K103", "K105", "K106", "K110", "K999", "YES", "NO", "no", "BX12A"}

\* the columns of the schedule file beside the part number: the recognised ones
\* and one that is not
ScheduleColumns == (BomScheduleKey \ {"PART NUMBER"}) \cup {"NOTES"}

\* a schedule row names each column once; compare_bom_schedule 409 passes only
\* rows that hold a part number
ScheduleRows(part_number, n) ==
    {<<<<"PART NUMBER", part_number>>>> \o d : d \in
        {d \in SeqsUpTo(ScheduleColumns \X ScheduleValues, n) :
            \A j, k \in 1..Len(d) : j # k => d[j][1] # d[k][1]}}

KitBom ==
    <<Row("Radar Sensor", "1", "", "K110"),
      Row("Software", "1", "Boot Software", "K101"),
      Row("Software", "1", "Main", "K102"),
      Row("Service Label", "1", "", "K103"),
      Row("Config", "1", "Data Set", "K104"),
      Row("Jumper Harness", "1", "", "K105"),
      Row("Cover", "1", "", "K106")>>

ScheduleBoms == {<<>>, KitBom}

SchedulePart ==
    [Input("K100", "Radar kit", "FLR-21", FALSE, FALSE, "") EXCEPT !.option = "Schedule"]

\* the schedule file holds one row; its part is the one the search opens
InitSchedule ==
    /\ phase = "start"
    /\ ctx = SchedulePart
    /\ titles \in ScheduleBoms
    /\ documents = <<>>
    /\ am_docs = NoAmDocs
    /\ letter_identifier = None
    /\ utils_letter = None
    /\ f3 = FreshF3
    /\ legacy = FreshLegacy
    /\ bom_result = NoResult
    /\ docs_result = NoResult
    /\ am_result = NoResult
    /\ run_count = 0
    /\ df_reference = <<>>
    /\ df_downloaded = <<>>
    /\ hash_seed = <<>>
    /\ reports = <<>>
    /\ NoAttributes
    /\ file_name_path = ""
    /\ archive = <<>>
    /\ ini_result = NoResult
    /\ schedule_data \in ScheduleRows(SchedulePart.part_number, MaxScheduleColumns)
    /\ main_title = <<Row("Radar kit", "1", "BX12 AUTOBAUD", "K100")>>
    /\ schedule_result = <<>>
    /\ NoReport

\* compare_bom_schedule on a file of one row: the table of the part is the content
\* of results_to_pdf, and the report button is enabled after the loop
CompareBomSchedule ==
    /\ phase = "start"
    /\ schedule_result' = get_bom_schedule_in_content(schedule_data, titles, main_title)
    /\ btn_generate_pdf' = [disabled |-> FALSE]
    /\ phase' = "done"
    /\ UNCHANGED <<partVars, objVars, resVars, run_count, fileVars, attrVars,
                   file_name_path, archive, ini_result, schedule_data, main_title>>

NextSchedule == CompareBomSchedule

SpecSchedule == InitSchedule /\ [][NextSchedule]_vars

(***************************************************************************)
(* What the inputs are, written down by hand                               *)
(***************************************************************************)
\* the keywords each title of ClassifyTitles holds, case ignored
TitleKeywords(t) ==
    CASE t = "Radar Sensor" -> {"radar"}
      [] t = "FLR25 RADAR" -> {"radar"}
      [] t = "Camera" -> {"camera"}
      [] t = "Front Assembly" -> {}
      [] t = "Radar Camera Kit" -> {"radar", "camera"}
      [] t = "Bracket Assembly" -> {"bracket assembly"}
      [] t = "BRACKET ASSEMBLY RADAR" -> {"bracket assembly", "radar"}
      [] t = "Bracket" -> {}
      [] t = "Cover" -> {"cover"}
      [] t = "Camera cover" -> {"camera", "cover"}
      [] t = "Bracket Assembly Cover" -> {"bracket assembly", "cover"}

\* the letter code between the two digit runs of each number of VariantPartNumbers
VariantBetweenDigits(pn) ==
    CASE pn = "K123X45" -> "X"
      [] pn = "K1R2" -> "R"
      [] pn = "K12SC3" -> "SC"
      [] pn = "K1N2" -> "N"
      [] pn = "K123" -> None
      [] pn = "R1X2" -> "X"
      [] pn = "K1SC2R" -> "SC"
      [] pn = "RX1" -> None
      [] pn = "123X" -> None

GenericType(ty) == ty \notin BracketTypes \cup CoverTypes

Classified == phase \in {"classified", "done"}

\* the element kind the classification stored for the part
ResolvedKind == IF ctx.type_dropdown \in LegacyTypes THEN legacy.element_name ELSE f3.element_name

(***************************************************************************)
(* Claims                                                                  *)
(***************************************************************************)
TableMismatch(r) == \E k \in 1..Len(r.df) : r.df[k].Quantity # r.df[k].Expected_value

\* C1: a tabulated row is highlighted as a quantity mismatch iff its Quantity differs
\* from its Expected_value, and the run reports SUCCESSFUL iff nothing is missing and
\* no tabulated row is a quantity mismatch.
C1_QuantityLaw ==
    (phase = "done" /\ bom_result.outcome = "returned") =>
        /\ \A k \in 1..Len(bom_result.df) :
               highlight_mismatched_values(bom_result.df[k])
                   <=> bom_result.df[k].Quantity # bom_result.df[k].Expected_value
        /\ bom_result.msg = "SUCCESSFUL"
               <=> (Len(bom_result.missing) = 0 /\ ~TableMismatch(bom_result))

\* the names under which a required element is listed as missing
MissingNames(element) ==
    CASE element = "with CAN termination" ->
             {element, "Radar with CAN termination (K218450H002)"}
      [] element = "wo CAN termination" ->
             {element, "Radar without CAN termination (K188333H002)"}
      [] element = "Camera" -> {element, "Camera (K188332H000)"}
      [] OTHER -> {element}

TimesMissing(r, element) ==
    Cardinality({k \in 1..Len(r.missing) : r.missing[k] \in MissingNames(element)})

Tabulated(r, element) ==
    \E k \in 1..Len(titles) : RowMatches(element, titles[k], f3)

\* C2: every required element is in the output exactly once, as missing or as
\* present: none is dropped, none is listed twice in the missing list, none is both
\* missing and present.
C2_ExactlyOnce ==
    (phase = "done" /\ bom_result.outcome = "returned") =>
        \A k \in 1..Len(bom_result.required) :
            LET element == bom_result.required[k] IN
            \/ TimesMissing(bom_result, element) = 1 /\ ~Tabulated(bom_result, element)
            \/ TimesMissing(bom_result, element) = 0 /\ Tabulated(bom_result, element)

\* C4: get_bom_in_content returns a result for every list of rows, also for an
\* empty list and for a row whose quantity is no decimal, which counts as zero.
C4_NeverRaises ==
    phase = "done" =>
        /\ bom_result.outcome = "returned"
        /\ \A k \in 1..Len(titles) :
               ~FloatParses(titles[k].quantity) =>
                   \A j \in 1..Len(bom_result.df) :
                       bom_result.df[j].ID = titles[k].id =>
                           bom_result.df[j].Quantity = 0

ClassificationFails(t, ty) ==
    \/ ty \in BracketTypes /\ "bracket assembly" \notin TitleKeywords(t)
    \/ ty \in CoverTypes /\ "cover" \notin TitleKeywords(t)
    \/ GenericType(ty) /\ "radar" \notin TitleKeywords(t) /\ "camera" \notin TitleKeywords(t)

\* C6: initialize_main_params raises exactly when a bracket family's title lacks
\* 'bracket assembly', the cover family's title lacks 'cover', or a generic family's
\* title holds neither 'radar' nor 'camera'; it raises before any reconciliation has
\* produced a result; otherwise the element kind is Bracket, Cover, Radar or Camera.
C6_ClassificationError ==
    phase \in {"error", "classified", "done"} =>
        /\ phase = "error" <=> ClassificationFails(ctx.title_id_value, ctx.type_dropdown)
        /\ phase = "error" => bom_result = NoResult /\ ResolvedKind = None
        /\ phase # "error" =>
              ResolvedKind =
                  IF ctx.type_dropdown \in BracketTypes THEN "Bracket"
                  ELSE IF ctx.type_dropdown \in CoverTypes THEN "Cover"
                  ELSE IF "radar" \in TitleKeywords(ctx.title_id_value) THEN "Radar"
                  ELSE "Camera"

C6_Witness ==
    /\ phase = "error"
    /\ ctx.title_id_value = "Front Assembly"
    /\ ctx.type_dropdown = "FLR-25"

\* C7: for a family that is neither bracket nor cover, classification succeeds only
\* if the title holds exactly one of 'radar' and 'camera', so the radar and the
\* camera corrections are never both applied to one product.
C7_ExactlyOneKeyword ==
    (Classified /\ GenericType(ctx.type_dropdown)) =>
        /\ ("radar" \in TitleKeywords(ctx.title_id_value))
               # ("camera" \in TitleKeywords(ctx.title_id_value))
        /\ ctx.type_dropdown \in Fusion3Types => ~(f3.radar_in_title /\ f3.camera_in_title)

\* C8: after a successful classification the element kind is the kind of the
\* selected family: Radar for FLR-21 and FLR-25, Camera for FLC-20 and FLC-25.
C8_KindOfFamily ==
    Classified =>
        /\ ctx.type_dropdown \in {"FLR-21", "FLR-25"} => ResolvedKind = "Radar"
        /\ ctx.type_dropdown \in {"FLC-20", "FLC-25"} => ResolvedKind = "Camera"

\* C9: validate_part_number returns the letter code between the two digit runs of
\* the pattern digits-letter-digits, and no variant when there is no such pattern.
C9_VariantLetter ==
    (phase # "start" /\ GenericType(ctx.type_dropdown)) =>
        letter_identifier = VariantBetweenDigits(ctx.part_number)


AcceptedStates == {"Working", "Proposed", "Rejected", "Approved", "Released"}

\* the kinds the resolved profile requires, whether or not the function got to them
RequiredKinds ==
    IF ctx.type_dropdown \in LegacyTypes THEN LegacyRequiredDocs ELSE F3RequiredDocs(f3)

\* the required kinds whose presence is decided by kind and state alone
PlainKinds ==
    {RequiredKinds[k] : k \in 1..Len(RequiredKinds)} \ {"Assembly Drawing", "Service Data"}

\* the name under which a kind is listed when it is missing
ReportedName(kind) ==
    IF ctx.type_dropdown = "FLC-25 Bracket" /\ kind = "Process Data Sheet"
    THEN "Process Data Sheet (BWs)" ELSE kind

ReportedMissing(kind) ==
    \E k \in 1..Len(docs_result.missing_docs) :
        docs_result.missing_docs[k] = ReportedName(kind)

AcceptedRecord(kind) ==
    \E k \in 1..Len(documents) :
        /\ documents[k].document_kind = kind
        /\ documents[k].lifecycle_state \in AcceptedStates

\* C10 as stated: a required kind, other than Assembly Drawing and Service Data, is
\* reported missing iff no observed record has that kind in an accepted state.
C10_MissingIffNoAcceptedRecord ==
    (phase = "done" /\ ctx.option = "Document Validation") =>
        \A kind \in PlainKinds : ReportedMissing(kind) <=> ~AcceptedRecord(kind)

\* C10, amended: when at least one record was observed, a required kind, other than
\* Assembly Drawing and Service Data, is reported missing iff no observed record has
\* that kind in an accepted state; when no record was observed the function
\* answers 'No documents were found' and lists no kind.
C10_MissingIffNoAcceptedRecord_Observed ==
    (phase = "done" /\ ctx.option = "Document Validation") =>
        IF documents = <<>>
        THEN docs_result.msg = "No documents were found" /\ docs_result.missing_docs = <<>>
        ELSE \A kind \in PlainKinds : ReportedMissing(kind) <=> ~AcceptedRecord(kind)

C10_Witness ==
    /\ phase = "done"
    /\ ctx.type_dropdown = "FLC-25"
    /\ f3.letter_identifier = "R"
    /\ documents = <<Doc("Installation old", "Installation Drawing", "Obsolete")>>
    /\ ReportedMissing("Installation Drawing")


\* the last run, made on objects that no earlier run has touched
FreshRun == run_option(FreshObj, ctx, titles, documents, am_docs)

LastResult ==
    IF ctx.option = "BOM Structure" THEN bom_result
    ELSE IF ctx.option = "Document Validation" THEN docs_result
    ELSE am_result

\* C3: over any sequence of runs on one automation object, the flag
\* Fusion3.is_am_bracket is never still set when a run has ended (so none starts
\* with it set), and a run ends as it would have ended on fresh objects, with the
\* same result: its outcome depends on its own inputs only.
C3_RunsIndependent ==
    run_count > 0 =>
        /\ ~f3.is_am_bracket
        /\ phase = FreshRun.outcome
        /\ phase = "done" => LastResult = FreshRun.result


\* C5: for fixed inputs, two invocations of the same check give the same result,
\* with the same names in the same order: here the parameter names listed as
\* missing from the downloaded file.
C5_SameOrder ==
    \A j, k \in 1..Len(reports) : reports[j] = reports[k]


\* the optional kinds of the selected bracket family, as written in the claim
OptionalKinds ==
    IF ctx.type_dropdown = "FLR-25 Bracket"
    THEN {"Feasibility Agreement (FeA) (DMI)", "Mechanical TR Document",
          "Electrical TR Document", "Test Report"}
    ELSE IF ctx.type_dropdown = "FLC-25 Bracket"
    THEN {"Electrical TR Document", "Process Data Sheet"}
    ELSE {}

\* the entries of the missing list that do not name an optional kind
HardMissing ==
    {k \in 1..Len(docs_result.missing_docs) :
        \A kind \in OptionalKinds : docs_result.missing_docs[k] # ReportedName(kind)}

\* C11: for the bracket families an absent optional document kind is not listed in
\* the missing list, and the verdict is SUCCESSFUL whenever no other kind is missing:
\* the absence of optional kinds alone never makes the verdict a failure.
C11_OptionalOnlyAdvisory ==
    (phase = "done" /\ ctx.option = "Document Validation"
        /\ ctx.type_dropdown \in BracketTypes /\ documents # <<>>) =>
        /\ \A kind \in OptionalKinds : ~ReportedMissing(kind)
        /\ HardMissing = {} => docs_result.msg = "SUCCESSFUL"


\* the language codes each Service Data title of DocCatalog carries, read by hand
TitleLanguages(name) ==
    CASE name = "Service Data, EN" -> {"EN"}
      [] name = "Service Data, ES, FR" -> {"ES", "FR"}
      [] name = "DocX, FR" -> {"FR"}
      [] name = "Service Data, US" -> {"US"}
      [] OTHER -> {}

\* the target languages of the class that validates the part
TargetLanguages ==
    IF ctx.type_dropdown \in LegacyTypes THEN {"ES", "US", "FR"} ELSE {"US"}

LanguageCovered(lang) ==
    \E k \in 1..Len(documents) :
        /\ documents[k].document_kind = "Service Data"
        /\ documents[k].lifecycle_state \in AcceptedStates
        /\ \/ lang \in TitleLanguages(documents[k].name)
           \/ lang = "US" /\ "EN" \in TitleLanguages(documents[k].name)

InMissingDocs(entry) ==
    \E k \in 1..Len(docs_result.missing_docs) : docs_result.missing_docs[k] = entry

ServiceDataRuled == ctx.type_dropdown \in GenericTypes

\* C12 as stated: a target language is covered iff some accepted Service Data record
\* carries it after the first comma of its title ('EN' counting as 'US'); every
\* uncovered target is listed as 'Service Data - <lang>', and the generic entry
\* 'Service Data' is absent whenever a qualified entry is listed.
C12_LanguageCoverage ==
    (phase = "done" /\ ctx.option = "Document Validation" /\ ServiceDataRuled) =>
        /\ \A lang \in TargetLanguages :
               InMissingDocs("Service Data - " \o lang) <=> ~LanguageCovered(lang)
        /\ (\E lang \in TargetLanguages : InMissingDocs("Service Data - " \o lang))
               => ~InMissingDocs("Service Data")

\* C12, amended: the same, for a run that observed at least one document record;
\* with no record observed the function lists nothing as missing.
C12_LanguageCoverage_Observed ==
    (phase = "done" /\ ctx.option = "Document Validation" /\ ServiceDataRuled) =>
        IF documents = <<>> THEN docs_result.missing_docs = <<>>
        ELSE /\ \A lang \in TargetLanguages :
                    InMissingDocs("Service Data - " \o lang) <=> ~LanguageCovered(lang)
             /\ (\E lang \in TargetLanguages : InMissingDocs("Service Data - " \o lang))
                    => ~InMissingDocs("Service Data")

C12_Witness ==
    /\ phase = "done"
    /\ ctx.type_dropdown = "FLR-25"
    /\ documents = <<Doc("DocX, FR", "Service Data", "Working")>>
    /\ InMissingDocs("Service Data - US")
    /\ ~InMissingDocs("Service Data")


\* the rows of RadarRows and CameraRows, by id, read by hand: those whose title
\* holds 'software' in any case, whose description names a data set, whose title
\* holds 'Dataset'
SoftwareTitledIds == {"K1", "K2", "K3", "K5", "K7"}
DatasetDescribedIds == {"K3"}
DatasetTitledIds == {"K4"}

RowsWithId(ids) == {k \in 1..Len(titles) : titles[k].id \in ids}

InMissingElements(name) ==
    \E k \in 1..Len(bom_result.missing) : bom_result.missing[k] = name

BomReturned == phase = "done" /\ ctx.option = "BOM Structure" /\ bom_result.outcome = "returned"

RadarOrCameraKind ==
    ctx.type_dropdown \in Fusion3Types /\ f3.element_name \in {"Radar", "Camera"}

\* C13: for the Radar and Camera kinds, when no row title holds 'Dataset', the final
\* missing list is free of 'Dataset' iff at least two rows have a title holding
\* 'software' and one of those rows has a description holding 'DATASET' or
\* 'DATA SET' in any case.
C13_DatasetInference ==
    (BomReturned /\ RadarOrCameraKind /\ RowsWithId(DatasetTitledIds) = {}) =>
        (~InMissingElements("Dataset")
            <=> /\ Cardinality(RowsWithId(SoftwareTitledIds)) >= 2
                /\ RowsWithId(DatasetDescribedIds) # {})

C13_Witness ==
    /\ BomReturned
    /\ ctx.type_dropdown = "FLR-25"
    /\ titles = <<Row("Software", "1", "VER FU123456", "K1"),
                  Row("Software", "1", "Data Set VER FU123456", "K3")>>
    /\ ~InMissingElements("Dataset")


\* the rows of RadarRows, read by hand: the radar rows are titled 'Radar', and their
\* descriptions are 'with CAN termination' or 'wo CAN termination'
RadarRowDescribed(k, description) ==
    titles[k].title = "Radar" /\ titles[k].description = description

RadarKind == ctx.type_dropdown \in Fusion3Types /\ f3.element_name = "Radar"

NoGenericCanMissing ==
    ~InMissingElements("with CAN termination") /\ ~InMissingElements("wo CAN termination")

\* C14 as stated: for the Radar kinds the generic CAN names are never in the final
\* missing list, and the ID-qualified name of the selected option is in it iff no
\* radar row with the matching description has an id equal to the reference id.
C14_CanExactId ==
    (BomReturned /\ RadarKind) =>
        /\ NoGenericCanMissing
        /\ ctx.chbx_resistor =>
              (InMissingElements("Radar with CAN termination (K218450H002)")
                  <=> ~\E k \in 1..Len(titles) :
                          /\ RadarRowDescribed(k, "with CAN termination")
                          /\ titles[k].id = "K218450H002")
        /\ ~ctx.chbx_resistor =>
              (InMissingElements("Radar without CAN termination (K188333H002)")
                  <=> ~\E k \in 1..Len(titles) :
                          /\ RadarRowDescribed(k, "wo CAN termination")
                          /\ titles[k].id = "K188333H002")

\* C14, amended: the same, the id of a row being compared with the reference id
\* without regard to letter case.
C14_CanExactId_AnyCase ==
    (BomReturned /\ RadarKind) =>
        /\ NoGenericCanMissing
        /\ ctx.chbx_resistor =>
              (InMissingElements("Radar with CAN termination (K218450H002)")
                  <=> ~\E k \in 1..Len(titles) :
                          /\ RadarRowDescribed(k, "with CAN termination")
                          /\ titles[k].id \in {"K218450H002", "k218450h002"})
        /\ ~ctx.chbx_resistor =>
              (InMissingElements("Radar without CAN termination (K188333H002)")
                  <=> ~\E k \in 1..Len(titles) :
                          /\ RadarRowDescribed(k, "wo CAN termination")
                          /\ titles[k].id \in {"K188333H002", "k188333h002"})

C14_Witness ==
    /\ BomReturned
    /\ ctx.chbx_resistor
    /\ titles = <<Row("Radar", "1", "with CAN termination", "K000000H000")>>
    /\ InMissingElements("Radar with CAN termination (K218450H002)")
    /\ ~InMissingElements("with CAN termination")


(***************************************************************************)
(* C15: the Device Code row is conformant iff the observed value is one of *)
(* the acceptable alternatives of the family; this rule, and not equality  *)
(* with the displayed "a or b" text, colours the row in the on-screen      *)
(* table and in the PDF report.                                            *)
(***************************************************************************)
\* the acceptable device codes of each family, written down by hand
AcceptableDeviceCodes(family) ==
    CASE family = "FLC-20" -> {"21024", "50017"}
      [] family = "FLR-21" -> {"4963", "50013", "50016"}
      [] family = "FLC-25" -> {"50024"}
      [] family = "FLR-25" -> {"50007", "50022"}
      [] OTHER -> {}

\* what the page shows for the device code
ObservedDeviceCode ==
    IF "Device Code" \in DOMAIN attr_page THEN attr_page["Device Code"] ELSE ""

DeviceCodeConformant == ObservedDeviceCode \in AcceptableDeviceCodes(ctx.type_dropdown)

C15_DeviceCodeMembership ==
    phase \in {"done", "reported"} =>
        \A k \in 1..Len(attr_result.df) :
            attr_result.df[k].Parameters = "Device Code" =>
                /\ attr_result.styled[k] = (IF DeviceCodeConformant THEN "black" ELSE "red")
                /\ phase = "reported" => (pdf_result.red[k] <=> ~DeviceCodeConformant)

\* a second alternative of the list is shown: not the displayed text, yet conformant
C15_Witness ==
    /\ phase = "reported"
    /\ ctx.type_dropdown = "FLC-20"
    /\ ObservedDeviceCode = "50017"
    /\ \E k \in 1..Len(attr_result.df) :
          /\ attr_result.df[k].Parameters = "Device Code"
          /\ attr_result.df[k].Expected_Value = Str("21024 or 50017")
          /\ attr_result.styled[k] = "black"
          /\ ~pdf_result.red[k]


(***************************************************************************)
(* C16: a parameter flagged 'must not be blank' is red iff nothing is      *)
(* observed for it, whatever else the page shows; the expected value it    *)
(* displays is a placeholder, which is never compared with the observed    *)
(* value.                                                                  *)
(***************************************************************************)
\* the placeholder each parameter displays, written down by hand
Placeholder(parameter) ==
    CASE parameter \in {"Number of S/C", "Number of C/C"} -> "(Digit, Not Blank)"
      [] parameter = "Application" -> "(Type of Application, Not Blank)"
      [] OTHER -> "(Not Blank)"

\* what the page shows for a parameter
ObservedValue(parameter) ==
    IF parameter \in DOMAIN attr_page THEN attr_page[parameter] ELSE ""

C16_NotBlankRule ==
    phase \in {"done", "reported"} =>
        \A k \in 1..Len(attr_result.df) :
            LET row == attr_result.df[k]
                blank == ObservedValue(row.Parameters) = ""
            IN  ~row.Should_be_Equal =>
                    /\ row.Expected_Value = Str(Placeholder(row.Parameters))
                    /\ attr_result.styled[k] = (IF blank THEN "red" ELSE "black")
                    /\ phase = "reported" => (pdf_result.red[k] <=> blank)

\* the page shows a value that differs from the placeholder: the row is conformant
C16_Witness ==
    /\ phase = "reported"
    /\ \E k \in 1..Len(attr_result.df) :
          /\ attr_result.df[k].Parameters = "Number of S/C"
          /\ ~attr_result.df[k].Should_be_Equal
          /\ attr_result.df[k].Actual_Value = "x"
          /\ attr_result.df[k].Expected_Value = Str("(Digit, Not Blank)")
          /\ attr_result.styled[k] = "black"
          /\ ~pdf_result.red[k]


(***************************************************************************)
(* C17: a catalog lookup for a (family, variant) key without an entry, in  *)
(* the element catalog of Fusion3 and Legacy and in the attribute catalog, *)
(* gives an empty profile and does not raise; the run that follows returns *)
(* and reports nothing missing.                                            *)
(***************************************************************************)
\* the keys each catalog has an entry for, written down by hand: the element the
\* title selects and the variant for the sensor families, the family alone for
\* brackets and covers
ElementCatalogHasEntry ==
    CASE ctx.type_dropdown \in {"FLR-25", "FLC-25"} ->
             letter_identifier \in {"X", "R", "SC"}
      [] ctx.type_dropdown \in {"FLR-21", "FLC-20"} ->
             letter_identifier \in {"X", "R", "N", "SC"}
      [] OTHER -> TRUE

AttributeCatalogHasEntry ==
    CASE ctx.type_dropdown \in {"FLR-25", "FLC-25"} ->
             letter_identifier \in {"X", "R", "SC"}
      [] ctx.type_dropdown \in {"FLR-21", "FLC-20"} ->
             letter_identifier \in {"X", "R", "N", "SC"}
      [] OTHER -> FALSE

AftermarketOnly == ctx.sales_chann_limit \in {"AM only", "am only", " AM Only "}

ZipPaths == {"K1.zip"}

HoldsParsableIni ==
    archive = [zip |-> TRUE,
               members |-> <<[name |-> "K1.ini", parsable |-> TRUE,
                              params |-> <<"Device Code", "Application">>]>>]

C19_ZipArchiveCompared ==
    phase = "done" =>
        /\ (file_name_path \in ZipPaths /\ HoldsParsableIni /\ df_reference # <<>>)
               => ini_result # <<>>
        /\ (file_name_path \notin ZipPaths \/ ~HoldsParsableIni) => ini_result = <<>>


(***************************************************************************)
(* C20: for the Radar and Camera kinds 'Boot Software' is in the final     *)
(* missing list iff no row has a title holding 'software' and a            *)
(* description holding the boot keyword of the kind ('boot software' for   *)
(* radar, 'boot' for camera, in any case): forced in when there is no such *)
(* row, taken out when there is one.                                       *)
(***************************************************************************)
\* written down by hand: the ids of the rows titled software whose description
\* holds 'boot software', and of those whose description holds 'boot'
RadarBootIds == {"K2"}
CameraBootIds == {"K2", "K5"}

BootRowObserved ==
    IF f3.element_name = "Radar"
    THEN \E k \in RowsWithId(RadarBootIds) : titles[k].description = "Boot Software"
    ELSE RowsWithId(CameraBootIds) # {}

C20_BootSoftware ==
    (BomReturned /\ RadarOrCameraKind) =>
        (InMissingElements("Boot Software") <=> ~BootRowObserved)


(***************************************************************************)
(* C21: for the Radar and Camera kinds 'Software' is in the final missing  *)
(* list, once, unless some row titled software that is no boot-software    *)
(* row of the kind has a description with the version pattern of the kind. *)
(***************************************************************************)
\* written down by hand: the ids of the rows titled software that are no boot row
\* of the kind and whose description holds the version pattern of the kind
RadarVersionIds == {"K1", "K3", "K7"}
CameraVersionIds == {"K1", "K3"}

VersionRowObserved ==
    IF f3.element_name = "Radar"
    THEN \E k \in RowsWithId(RadarVersionIds) : In("VER FU123456", titles[k].description)
    ELSE \E k \in RowsWithId(CameraVersionIds) : In("NA123456", titles[k].description)

C21_SoftwareVersion ==
    (BomReturned /\ RadarOrCameraKind /\ ~VersionRowObserved) =>
        Cardinality({k \in 1..Len(bom_result.missing) : bom_result.missing[k] = "Software"}) = 1


(***************************************************************************)
(* C22: for the Camera kind, when no row has a title holding 'camera' and  *)
(* the id K188332H000 the final missing list holds 'Camera (K188332H000)'  *)
(* once and not the generic 'Camera'; when such a row exists neither name  *)
(* is in the list.                                                         *)
(***************************************************************************)
\* written down by hand: every row with this id has a title holding 'camera'
CameraReferenceIds == {"K188332H000"}

CameraKind == ctx.type_dropdown \in Fusion3Types /\ f3.element_name = "Camera"

C22_CameraExactId ==
    (BomReturned /\ CameraKind) =>
        IF RowsWithId(CameraReferenceIds) = {}
        THEN /\ Cardinality({k \in 1..Len(bom_result.missing) :
                                bom_result.missing[k] = "Camera (K188332H000)"}) = 1
             /\ ~InMissingElements("Camera")
        ELSE /\ ~InMissingElements("Camera")
             /\ ~InMissingElements("Camera (K188332H000)")


(***************************************************************************)
(* C23: for the type FLC-25 Bracket a row whose title holds 'assembly' does *)
(* not satisfy 'Bracket' and is not tabulated under it: 'Bracket' is in the *)
(* final missing list iff no row title holds 'bracket' without 'assembly'   *)
(* in any case, and a 'Bracket Assembly' row is in the table once.          *)
(***************************************************************************)
\* written down by hand: K10 'Bracket', K12 'BRACKET'; K11 'Bracket Assembly'
PlainBracketIds == {"K10", "K12"}
BracketAssemblyIds == {"K11"}

FlcBracketKind == ctx.type_dropdown = "FLC-25 Bracket" /\ ctx.title_id_value = "Bracket Assembly"

TimesTabulated(ids) ==
    Cardinality({k \in 1..Len(bom_result.df) : bom_result.df[k].ID \in ids})

C23_BracketAssemblyExclusion ==
    (BomReturned /\ FlcBracketKind) =>
        /\ InMissingElements("Bracket") <=> (RowsWithId(PlainBracketIds) = {})
        /\ TimesTabulated(BracketAssemblyIds) = Cardinality(RowsWithId(BracketAssemblyIds))
        /\ TimesTabulated(PlainBracketIds) = Cardinality(RowsWithId(PlainBracketIds))


(***************************************************************************)
(* C24: where 'Assembly Drawing' is required, with no accepted record of    *)
(* that kind both 'Assembly Drawing Schedule' and 'Assembly Drawing CAD'    *)
(* are reported missing; with such records 'Assembly Drawing Schedule' is   *)
(* missing iff none of their titles holds 'schedule' and 'Assembly Drawing  *)
(* CAD' iff all of them do; 'Assembly Drawing' itself is never listed.      *)
(***************************************************************************)
\* written down by hand: the accepted Assembly Drawing records of the catalogue,
\* by title, and those of them whose title holds 'schedule' in any case
AcceptedAssemblyTitles == {"Assembly Drawing Schedule", "Assembly CAD"}
ScheduleTitles == {"Assembly Drawing Schedule"}

AssemblyRequired ==
    \E k \in 1..Len(RequiredKinds) : RequiredKinds[k] = "Assembly Drawing"

ObservedTitles(names) == {k \in 1..Len(documents) : documents[k].name \in names}

AssemblyDrawingRule ==
    /\ InMissingDocs("Assembly Drawing Schedule")
           <=> ObservedTitles(ScheduleTitles) = {}
    /\ InMissingDocs("Assembly Drawing CAD")
           <=> ObservedTitles(AcceptedAssemblyTitles \ ScheduleTitles) = {}
    /\ ~InMissingDocs("Assembly Drawing")

\* C24 as stated
C24_AssemblyDrawingSubtypes ==
    (phase = "done" /\ ctx.option = "Document Validation" /\ AssemblyRequired) =>
        AssemblyDrawingRule

\* C24, amended: the rule holds when at least one record was observed; when no
\* record was observed the function answers 'No documents were found' and
\* lists neither sub-requirement.
C24_AssemblyDrawingSubtypes_Observed ==
    (phase = "done" /\ ctx.option = "Document Validation" /\ AssemblyRequired) =>
        IF documents = <<>>
        THEN docs_result.msg = "No documents were found" /\ docs_result.missing_docs = <<>>
        ELSE AssemblyDrawingRule

\* only a record outside the accepted states is there: both are missing
C24_Witness ==
    /\ phase = "done"
    /\ ctx.type_dropdown = "FLC-25 Bracket"
    /\ documents = <<Doc("Assembly schedule old", "Assembly Drawing", "Obsolete")>>
    /\ InMissingDocs("Assembly Drawing Schedule")
    /\ InMissingDocs("Assembly Drawing CAD")

\* only schedule records are accepted: the CAD drawing alone is missing
C24_WitnessSchedule ==
    /\ phase = "done"
    /\ ctx.type_dropdown = "FLR-21"
    /\ ObservedTitles(ScheduleTitles) # {}
    /\ InMissingDocs("Assembly Drawing CAD")
    /\ ~InMissingDocs("Assembly Drawing Schedule")


(***************************************************************************)
(* C25: for each required element every observed row that matches it, not  *)
(* only the first, is in the table with its observed quantity and the       *)
(* expected quantity of the element: 3 for 'Nut' and 'Screw' and 1          *)
(* otherwise in Fusion3, 3 for 'Adjustor', 6 for 'Screw' and 1 otherwise in *)
(* Legacy.                                                                  *)
(***************************************************************************)
\* written down by hand for the rows of the catalogue: the required elements
\* a row matches, by row id, and the quantity the page shows as a number
ElementsOfRow(id) ==
    CASE id = "K188333H002" -> {"Radar", "wo CAN termination"}
      [] id = "K1" -> {"Software"}
      [] id = "K9" -> {"Screw"}
      [] id = "K8" -> {"Adjustor"}
      [] id = "K13" -> {"Nut"}
      [] OTHER -> {}

ObservedQuantity(id) == IF id \in {"K9", "K8", "K13"} THEN 3 ELSE 1

ExpectedQuantity(element) ==
    IF ctx.type_dropdown \in LegacyTypes
    THEN (IF element = "Adjustor" THEN 3 ELSE IF element = "Screw" THEN 6 ELSE 1)
    ELSE (IF element \in {"Nut", "Screw"} THEN 3 ELSE 1)

\* how often the table holds the row under the expected quantity of the element
TimesRecorded(id, element) ==
    Cardinality({k \in 1..Len(bom_result.df) :
        /\ bom_result.df[k].ID = id
        /\ bom_result.df[k].Quantity = ObservedQuantity(id)
        /\ bom_result.df[k].Expected_value = ExpectedQuantity(element)})

ScrewTitledIds == {"K6", "K8"}

ScrewQuantityShown(id) ==
    IF id = "K8" THEN 4
    ELSE IF f3.element_name = "Camera" THEN 3 ELSE 2

VariantSC == ctx.type_dropdown \in {"FLR-25", "FLC-25"} /\ ctx.part_number = "K123SC45"

ScrewEntries == {k \in 1..Len(bom_result.df) : bom_result.df[k].ID \in ScrewTitledIds}

C26_ScrewSideRule ==
    (BomReturned /\ VariantSC) =>
        /\ ~InMissingElements("Screw")
        /\ \A e \in 1..Len(bom_result.required) : bom_result.required[e] # "Screw"
        /\ IF RowsWithId(ScrewTitledIds) = {}
           THEN ScrewEntries = {}
           ELSE LET first == CHOOSE i \in RowsWithId(ScrewTitledIds) :
                                 \A j \in RowsWithId(ScrewTitledIds) : i <= j
                IN  /\ Cardinality(ScrewEntries) = 1
                    /\ \A k \in ScrewEntries :
                         /\ bom_result.df[k].ID = titles[first].id
                         /\ bom_result.df[k].Quantity = ScrewQuantityShown(titles[first].id)
                         /\ bom_result.df[k].Expected_value = 3

\* two screw rows: the second is the capitalised one and is left out
C26_Witness ==
    /\ BomReturned /\ VariantSC
    /\ Len(titles) = 2 /\ titles[1].id = "K8" /\ titles[2].id = "K6"
    /\ Cardinality(ScrewEntries) = 1
    /\ \E k \in ScrewEntries : bom_result.df[k].ID = "K8" /\ bom_result.df[k].Expected_value = 3


(***************************************************************************)
(* C27: a call of validate_part_number or initialize_main_params that      *)
(* fails leaves the stored classification as it was before the call: the   *)
(* element kind, the variant letter, the title, the part number and the    *)
(* type (the keyword flags are functions of the stored title).             *)
(***************************************************************************)
\* written down by hand: the part numbers without digits, variant letter, digits
PatternlessPartNumbers == {"K123", "RX1", "123X"}

\* the step is a call of validate_part_number that returns None
FailedValidation ==
    /\ phase = "start" /\ phase' = "rejected"
    /\ ctx.type_dropdown \notin BracketCoverTypes
    /\ ctx.part_number \in PatternlessPartNumbers

\* the step is a call of initialize_main_params that raises ValueError
FailedClassification == phase = "valid" /\ phase' = "error"

ClassificationKept ==
    /\ f3'.element_name = f3.element_name
    /\ f3'.letter_identifier = f3.letter_identifier
    /\ f3'.title_id_value = f3.title_id_value
    /\ f3'.part_number = f3.part_number
    /\ f3'.type_dropdown = f3.type_dropdown
    /\ legacy'.element_name = legacy.element_name
    /\ legacy'.letter_identifier = legacy.letter_identifier
    /\ legacy'.title_id_value = legacy.title_id_value
    /\ legacy'.part_number = legacy.part_number
    /\ legacy'.type_dropdown = legacy.type_dropdown

C27_NoSideEffects ==
    [][/\ FailedValidation => utils_letter' = utils_letter
       /\ FailedClassification => ClassificationKept]_vars


(***************************************************************************)
(* C28: over any sequence of runs the 'Generate PDF Report' button is       *)
(* enabled only if the most recent run completed without an exception and  *)
(* assigned results_to_pdf; a run that stops early or raises leaves the     *)
(* button disabled.                                                         *)
(***************************************************************************)
C28_ButtonAfterCompletedRun ==
    (run_count > 0 /\ ~btn_generate_pdf.disabled) => phase = "done"


(***************************************************************************)
(* C29: when the part number of an FLC-25 or FLR-25 product resolves to    *)
(* the variant SC, document validation takes the SC path: the documents of *)
(* the part itself are validated and, when the Content tab holds a part    *)
(* whose id is digits-X-digits, those of that X part as well; for every    *)
(* other variant only the documents of the part itself are validated.      *)
(***************************************************************************)
\* written down by hand: the part numbers of the variant SC and the row ids
\* with the pattern digits-X-digits
KitPartNumbers == {"K123SC45"}
XPartIds == {"K456X78"}

\* the result holds a second validation, that of the X part
PartXValidated == "partX" \in DOMAIN docs_result

C29_ScPath ==
    (phase = "done" /\ ctx.option = "Document Validation"
         /\ ctx.type_dropdown \in {"FLC-25", "FLR-25"}) =>
        PartXValidated <=> (ctx.part_number \in KitPartNumbers /\ RowsWithId(XPartIds) # {})


(***************************************************************************)
(* C30: in get_bom_schedule_in_content, for every recognised schedule      *)
(* parameter whose value names an item (a K-number, or 'YES' for JUMPER    *)
(* HARNESS and COVER) the verdict is 'Correct' iff the BOM holds a row of  *)
(* the parameter's kind matching the value and 'Incorrect' iff it holds    *)
(* none; '--------' is given only when the value is 'NO' or names no item. *)
(* The rows of each kind in the BOM of the kit are written down by hand.   *)
(***************************************************************************)
NamesItem(key, value) ==
    \/ value \in {"K100", "K103", "K105", "K106", "K110", "K999"}
    \/ value = "YES" /\ key \in {"JUMPER HARNESS", "COVER"}

\* the ids of the rows of the parameter's kind in the BOM of the kit
KitIdsOfKind(key) ==
    CASE key = "PART NUMBER" -> {"K100"}
      [] key = "RADAR PART NUMBER" -> {"K110"}
      [] key \in {"SW PART NUMBER"} -> {"K101", "K102"}
      [] key = "BOOT SOFTWARE PART NUMBER" -> {"K101"}
      [] key = "MAIN SOFTWARE PART NUMBER" -> {"K102"}
      [] key = "CONFIG INI DATA SET" -> {"K104"}
      [] key \in {"PRODUCT ID LABEL PART NUMBER", "PART NUMBER LABEL", "LABEL",
                  "REMAN LABEL", "SERVICE LABEL"} -> {"K103"}
      [] key = "JUMPER HARNESS" -> {"K105"}
      [] key = "COVER" -> {"K106"}
      [] OTHER -> {}

HandMatch(key, value) ==
    LET ids == IF titles = <<>> /\ key # "PART NUMBER" THEN {} ELSE KitIdsOfKind(key)
    IN  IF value = "YES" THEN ids # {} ELSE value \in ids

C30_ScheduleVerdicts ==
    phase = "done" =>
        \A k \in 1..Len(schedule_result) :
            LET row == schedule_result[k]
                key == row.Parameter
                value == row.Schedule_Value
            IN  /\ NamesItem(key, value) =>
                    /\ row.Comparison_vs_BOM = "Correct" <=> HandMatch(key, value)
                    /\ row.Comparison_vs_BOM = "Incorrect" <=> ~HandMatch(key, value)
                /\ row.Comparison_vs_BOM = "--------" =>
                    value = "NO" \/ ~NamesItem(key, value)


====
